---- MODULE Spec2Model ----
(***************************************************************************)
(* A model of spirecomm: the Coordinator (communication/coordinator.py),   *)
(* the action vocabulary (communication/action.py) and the parts of the    *)
(* game-state snapshot (spire/game.py, spire/screen.py, spire/card.py,     *)
(* spire/potion.py, spire/map.py) that the actions read.                   *)
(*                                                                         *)
(* Python's None is the empty tuple <<>> and a present value v is <<v>>.   *)
(* A protocol line is the tuple of its blank-separated tokens.             *)
(***************************************************************************)
EXTENDS Integers, Sequences, FiniteSets, TLC

VARIABLES
    pc,               \* position of the main thread
    input_queue,      \* Coordinator.input_queue: messages read from stdin
    output_queue,     \* Coordinator.output_queue: lines not yet printed
    action_queue,     \* Coordinator.action_queue
    game_is_ready,    \* Coordinator.game_is_ready
    stop_after_run,   \* Coordinator.stop_after_run
    in_game,          \* Coordinator.in_game
    last_game_state,  \* Coordinator.last_game_state
    last_error,       \* Coordinator.last_error
    result,           \* value returned by the last play_one_game call
    n_read,           \* number of lines read from stdin so far
    world,            \* the stretch of the game this behaviour plays in
    tx,               \* history: the line the main thread wrote in its last step
    cb,               \* history: the callback the main thread invoked in its last step
    rx,               \* history: the message the main thread received in its last step
    ex,               \* history: the action the main thread executed in its last step
    ready_seen,       \* history: a ready message was received since the last line written
    sent_any,         \* history: some line has been written
    last_in_session,  \* history: the last in-session snapshot received
    decided_on,       \* history: the snapshot the last state-change decision saw
    drain,            \* history: the lines written since a CardSelectAction expanded
    agent,            \* the SimpleAgent object
    dungeon,          \* the act's map and the policy's reward table for it
    place,            \* where the player stands on the act's map
    decision,         \* history: the last call of get_next_action_in_game
    plans,            \* history: the route plannings since the act was entered
    encounter,        \* history: what the engine has done in the room it is in
    stdin,            \* the characters the application has written and the pump has not read
    stdin_input,      \* read_stdin: the characters of the line being accumulated
    typed,            \* history: the characters read_stdin has read
    stdout,           \* the lines write_stdout has printed
    got,              \* history: the messages get_next_raw_message has returned
    sent              \* history: the lines send_message has been called with

vars == <<pc, input_queue, output_queue, action_queue, game_is_ready,
          stop_after_run, in_game, last_game_state, last_error, result, n_read,
          world, tx, cb, rx, ex, ready_seen, sent_any, last_in_session, decided_on, drain,
          agent, dungeon, place, decision, plans, encounter,
          stdin, stdin_input, typed, stdout, got, sent>>

engine == <<agent, dungeon, place, decision, plans, encounter>>

pumps == <<stdin, stdin_input, typed, stdout, got, sent>>

coord == <<action_queue, game_is_ready, stop_after_run, in_game,
           last_game_state, last_error>>

hist == <<tx, cb, rx, ex, ready_seen, sent_any, last_in_session, decided_on, drain>>

----------------------------------------------------------------------------
(* Bounds *)

\* lines the application writes to the driver's stdin in one behaviour
MaxMessages == 2

\* a compound selection of two cards takes one message more to play out: one
\* to decide on, and a ready message after each line
MessagesIn(w) == IF w = "select" THEN MaxMessages + 1 ELSE MaxMessages

\* lines waiting in input_queue at once
MaxInput == 1

\* lines waiting in output_queue at once
MaxOutput == 1

----------------------------------------------------------------------------
(* Optional values and list helpers *)

None == <<>>

Some(v) == <<v>>

Val(o) == o[1]

\* list.sort(reverse=True) on integers
RECURSIVE InsertDesc(_, _)
InsertDesc(sorted, n) ==
    IF sorted = <<>> THEN <<n>>
    ELSE IF n >= Head(sorted) THEN <<n>> \o sorted
    ELSE <<Head(sorted)>> \o InsertDesc(Tail(sorted), n)

RECURSIVE SortReverse(_)
SortReverse(list) ==
    IF list = <<>> THEN <<>>
    ELSE InsertDesc(SortReverse(Tail(list)), Head(list))

\* str(n)
Str(n) == ToString(n)

----------------------------------------------------------------------------
(* Entities of a snapshot *)

\* Card.__eq__: the uuid is the sole equality key
CardEq(a, b) == a.uuid = b.uuid

\* Potion.__eq__: potions compare by potion_id
PotionEq(a, b) == a.potion_id = b.potion_id

\* Node.__eq__: nodes compare by coordinates
NodeEq(a, b) == a.x = b.x /\ a.y = b.y

\* CombatReward.__eq__: type, gold, relic and potion (link is None in the
\* rewards modelled here); Relic defines no __eq__, so two relics are equal
\* only when they are the same object
RewardEq(a, b) ==
    /\ a.reward_type = b.reward_type
    /\ a.gold = b.gold
    /\ a.relic = b.relic
    /\ IF a.potion = None \/ b.potion = None THEN a.potion = b.potion
       ELSE PotionEq(Val(a.potion), Val(b.potion))

\* a == b between entities: Python dispatches to the __eq__ of the class
Eq(a, b) ==
    IF "uuid" \in DOMAIN a THEN CardEq(a, b)
    ELSE IF "potion_id" \in DOMAIN a THEN PotionEq(a, b)
    ELSE IF "reward_type" \in DOMAIN a THEN RewardEq(a, b)
    ELSE IF "x" \in DOMAIN a THEN NodeEq(a, b)
    ELSE a = b

\* list.index(x): the first position (0-based) whose element equals x, or -1
\* where Python raises ValueError
RECURSIVE IndexFrom(_, _, _)
IndexFrom(list, x, i) ==
    IF i > Len(list) THEN -1
    ELSE IF Eq(list[i], x) THEN i - 1
    ELSE IndexFrom(list, x, i + 1)

ListIndex(list, x) == IndexFrom(list, x, 1)

\* x in list
ListContains(list, x) == \E i \in 1..Len(list) : Eq(list[i], x)

Strike1 == [uuid |-> "u1", name |-> "Strike"]
Strike2 == [uuid |-> "u2", name |-> "Strike"]
Defend3 == [uuid |-> "u3", name |-> "Defend"]
Bash4 == [uuid |-> "u4", name |-> "Bash"]

FirePotion == [potion_id |-> "Fire Potion", name |-> "Fire Potion"]
BlockPotion == [potion_id |-> "Block Potion", name |-> "Block Potion"]
PotionSlot == [potion_id |-> "Potion Slot", name |-> "Potion Slot"]

\* Relic.from_json: every parse makes a new object; `object` names the
\* snapshot whose parse made this one
Relic(name, object) == [relic_id |-> name, name |-> name, object |-> object]

GoldReward ==
    [reward_type |-> "GOLD", gold |-> 10, relic |-> None, potion |-> None]
PotionReward ==
    [reward_type |-> "POTION", gold |-> 0, relic |-> None,
     potion |-> Some(BlockPotion)]
CardReward ==
    [reward_type |-> "CARD", gold |-> 0, relic |-> None, potion |-> None]
RelicReward(object) ==
    [reward_type |-> "RELIC", gold |-> 0, relic |-> Some(Relic("Anchor", object)),
     potion |-> None]

Node01 == [x |-> 0, y |-> 1, symbol |-> "M"]
Node21 == [x |-> 2, y |-> 1, symbol |-> "?"]
Node32 == [x |-> 3, y |-> 2, symbol |-> "E"]

Monster0 == [name |-> "Cultist", monster_index |-> 0]
Monster1 == [name |-> "Jaw Worm", monster_index |-> 1]

\* Game.from_json: each monster of a combat snapshot gets its position in the
\* snapshot's monster list as monster_index
Monsters(names) ==
    [i \in 1..Len(names) |-> [name |-> names[i], monster_index |-> i - 1]]

\* Screen.from_json and its subclasses: the fields each screen class carries
NoScreen == [screen_type |-> "NONE"]

CombatRewardScreen(rewards) == [screen_type |-> "COMBAT_REWARD", rewards |-> rewards]

MapScreen(next_nodes, boss_available) ==
    [screen_type |-> "MAP", next_nodes |-> next_nodes, boss_available |-> boss_available]

ShopScreen == [screen_type |-> "SHOP_SCREEN", purge_available |-> TRUE]

GridSelectScreen(cards, selected_cards, num_cards, any_number, confirm_up) ==
    [screen_type |-> "GRID", cards |-> cards, selected_cards |-> selected_cards,
     num_cards |-> num_cards, any_number |-> any_number, confirm_up |-> confirm_up]

HandSelectScreen(cards, selected_cards, num_cards) ==
    [screen_type |-> "HAND_SELECT", cards |-> cards,
     selected_cards |-> selected_cards, num_cards |-> num_cards]

GameOverScreen(victory) == [screen_type |-> "GAME_OVER", victory |-> victory]

\* Game.from_json: the snapshot fields the coordinator and the actions read
Game(screen, hand, potions) ==
    [screen_type |-> screen.screen_type, screen |-> screen,
     hand |-> hand, potions |-> potions, monsters |-> <<>>]

\* Game.are_potions_full
are_potions_full(game) ==
    ~ \E i \in 1..Len(game.potions) : game.potions[i].potion_id = "Potion Slot"

\* The snapshots the application sends in this model
Combat3 ==
    [Game(NoScreen, <<Strike1, Strike2, Defend3>>, <<FirePotion, PotionSlot>>)
        EXCEPT !.monsters = Monsters(<<"Cultist", "Jaw Worm">>)]
Combat2 ==
    [Game(NoScreen, <<Strike2, Defend3>>, <<PotionSlot, FirePotion>>)
        EXCEPT !.monsters = Monsters(<<"Jaw Worm">>)]
Rewards3 ==
    Game(CombatRewardScreen(<<GoldReward, PotionReward, CardReward,
                              RelicReward("Rewards3")>>),
         <<>>, <<FirePotion, FirePotion>>)
Rewards2 ==
    Game(CombatRewardScreen(<<PotionReward, CardReward, RelicReward("Rewards2")>>),
         <<>>, <<FirePotion, PotionSlot>>)
Grid4 == Game(GridSelectScreen(<<Strike1, Strike2, Defend3, Bash4>>, <<>>, 2, FALSE, FALSE),
              <<>>, <<PotionSlot, PotionSlot>>)
GridPurge == Game(GridSelectScreen(<<Strike1, Defend3>>, <<>>, 1, FALSE, TRUE),
                  <<>>, <<PotionSlot, PotionSlot>>)
HandSel == Game(HandSelectScreen(<<Strike2, Defend3>>, <<>>, 2),
                <<Strike2, Defend3>>, <<PotionSlot, PotionSlot>>)
MapNodes == Game(MapScreen(<<Node01, Node21>>, FALSE), <<>>, <<PotionSlot, PotionSlot>>)
MapBoss == Game(MapScreen(<<>>, TRUE), <<>>, <<PotionSlot, PotionSlot>>)
Shop == Game(ShopScreen, <<>>, <<PotionSlot, PotionSlot>>)
Victory == Game(GameOverScreen(TRUE), <<>>, <<PotionSlot, PotionSlot>>)
Defeat == Game(GameOverScreen(FALSE), <<>>, <<PotionSlot, PotionSlot>>)

\* The stretches of a game a behaviour can play in; each fixes the snapshots
\* the application reports and the actions the callbacks return
Worlds == {"cards", "potions", "rewards", "select", "map", "shop", "over"}

SnapshotsOf(w) ==
    CASE w = "cards" -> {Combat3, Combat2}
      [] w = "potions" -> {Combat3, Combat2}
      [] w = "rewards" -> {Rewards3, Rewards2}
      [] w = "select" -> {Grid4, HandSel}
      [] w = "map" -> {MapNodes, MapBoss}
      [] w = "shop" -> {Shop, GridPurge}
      [] w = "over" -> {Victory, Defeat, MapBoss}

\* One inbound line: {ready_for_command, error?, in_game, game_state?}
Message(ready, error, ingame, state) ==
    [ready_for_command |-> ready, error |-> error, in_game |-> ingame,
     game_state |-> state]

\* a line that is not JSON
Garbled == [text |-> "<html>"]

\* a snapshot whose screen_type names no member of ScreenType
UnknownScreen == Game([screen_type |-> "SETTINGS"], <<>>, <<>>)

MessagesOf(w) ==
    {Message(r, None, TRUE, Some(g)) : r \in BOOLEAN, g \in SnapshotsOf(w)}
    \cup {Message(r, None, FALSE, None) : r \in BOOLEAN}
    \cup {Message(r, Some("Invalid command"), FALSE, None) : r \in BOOLEAN}
    \cup {Message(TRUE, None, TRUE, Some(UnknownScreen)), Garbled}

\* the members of ScreenType
ScreenTypes ==
    {"EVENT", "CHEST", "SHOP_ROOM", "REST", "CARD_REWARD", "COMBAT_REWARD", "MAP",
     "BOSS_REWARD", "SHOP_SCREEN", "GRID", "HAND_SELECT", "GAME_OVER", "COMPLETE",
     "NONE"}

\* json.loads(message): None stands for the JSONDecodeError it raises on a
\* line that is not JSON
json_loads(line) == IF line = Garbled THEN None ELSE Some(line)

\* Game.from_json is called on the game_state of a message and raises:
\* ScreenType[...] is a KeyError for a name that is no member
from_json_raises(communication_state) ==
    /\ communication_state.error = None
    /\ communication_state.in_game
    /\ Val(communication_state.game_state).screen_type \notin ScreenTypes

\* the line is one receive_game_state_update raises on
Rejected(line) ==
    \/ json_loads(line) = None
    \/ from_json_raises(Val(json_loads(line)))

----------------------------------------------------------------------------
(* The action vocabulary: constructors (each __init__) *)

\* Action.__init__
Action(type, command) ==
    [type |-> type, command |-> command, requires_game_ready |-> TRUE]

EndTurnAction == Action("EndTurnAction", "end")
ProceedAction == Action("ProceedAction", "proceed")
CancelAction == Action("CancelAction", "cancel")

\* StateAction.__init__: the one action built with requires_game_ready False
StateAction ==
    [type |-> "StateAction", command |-> "state", requires_game_ready |-> FALSE]

\* PlayCardAction.__init__
PlayCardAction(card, card_index, target_monster, target_index) ==
    [type |-> "PlayCardAction", command |-> "play", requires_game_ready |-> TRUE,
     card |-> card, card_index |-> card_index,
     target_monster |-> target_monster, target_index |-> target_index]

\* PotionAction.__init__
PotionAction(use, potion, potion_index, target_monster, target_index) ==
    [type |-> "PotionAction", command |-> "potion", requires_game_ready |-> TRUE,
     use |-> use, potion |-> potion, potion_index |-> potion_index,
     target_monster |-> target_monster, target_index |-> target_index]

\* ChooseAction.__init__ (and the subclasses that only fix its name or index)
ChooseAction(choice_index, name) ==
    [type |-> "ChooseAction", command |-> "choose", requires_game_ready |-> TRUE,
     choice_index |-> choice_index, name |-> name]

\* a ChooseAction subclass that only fixes the name and inherits execute
NamedChoice(type, name) ==
    [type |-> type, command |-> "choose", requires_game_ready |-> TRUE,
     choice_index |-> 0, name |-> Some(name)]

\* ChooseShopkeeperAction.__init__
ChooseShopkeeperAction == NamedChoice("ChooseShopkeeperAction", "shop")

\* OpenChestAction.__init__
OpenChestAction == NamedChoice("OpenChestAction", "open")

\* BuyCardAction.__init__
BuyCardAction(card) == NamedChoice("BuyCardAction", card.name)

\* BuyRelicAction.__init__
BuyRelicAction(relic) == NamedChoice("BuyRelicAction", relic.name)

\* RestAction.__init__: the name of the RestOption member
RestAction(rest_option) == NamedChoice("RestAction", rest_option)

\* CardRewardAction.__init__ with a card
CardRewardAction(card) == NamedChoice("CardRewardAction", card.name)

\* CardRewardAction.__init__ with bowl=True
CardRewardAction_bowl == NamedChoice("CardRewardAction", "bowl")

\* BossRewardAction.__init__
BossRewardAction(relic) == NamedChoice("BossRewardAction", relic.name)

\* BuyPotionAction.__init__
BuyPotionAction(potion) ==
    [type |-> "BuyPotionAction", command |-> "choose", requires_game_ready |-> TRUE,
     choice_index |-> 0, name |-> Some(potion.name)]

\* BuyPurgeAction.__init__
BuyPurgeAction(card_to_purge) ==
    [type |-> "BuyPurgeAction", command |-> "state", requires_game_ready |-> TRUE,
     card_to_purge |-> card_to_purge]

\* CombatRewardAction.__init__
CombatRewardAction(combat_reward) ==
    [type |-> "CombatRewardAction", command |-> "choose", requires_game_ready |-> TRUE,
     choice_index |-> 0, name |-> None, combat_reward |-> combat_reward]

\* OptionalCardSelectConfirmAction.__init__
OptionalCardSelectConfirmAction ==
    Action("OptionalCardSelectConfirmAction", "state")

\* CardSelectAction.__init__
CardSelectAction(cards) ==
    [type |-> "CardSelectAction", command |-> "state", requires_game_ready |-> TRUE,
     cards |-> cards]

\* ChooseMapNodeAction.__init__
ChooseMapNodeAction(node) ==
    [type |-> "ChooseMapNodeAction", command |-> "choose", requires_game_ready |-> TRUE,
     choice_index |-> 0, name |-> None, node |-> node]

\* ChooseMapBossAction.__init__
ChooseMapBossAction ==
    [type |-> "ChooseMapBossAction", command |-> "choose", requires_game_ready |-> TRUE,
     choice_index |-> 0, name |-> None]

\* StartGameAction.__init__
StartGameAction(player_class, ascension_level, seed) ==
    [type |-> "StartGameAction", command |-> "start", requires_game_ready |-> TRUE,
     player_class |-> player_class, ascension_level |-> ascension_level,
     seed |-> seed]

----------------------------------------------------------------------------
(* What one execute() call does before it returns or raises: the lines it   *)
(* sends with send_message, the actions it appends with add_action_to_queue *)
(* and whether it ends by raising.                                          *)

Sends(line) == [fault |-> FALSE, lines |-> <<line>>, push |-> <<>>]

Queues(actions) == [fault |-> FALSE, lines |-> <<>>, push |-> actions]

Raises == [fault |-> TRUE, lines |-> <<>>, push |-> <<>>]

\* Action.execute
Action_execute(a) == Sends(<<a.command>>)

\* a card reduced to its name, compared as cards are
CardNameEq(card) == [uuid |-> card.name]

\* HandIndex that finds the first card of the same name
HandIndex_by_name(hand, card) ==
    ListIndex([i \in 1..Len(hand) |-> CardNameEq(hand[i])], CardNameEq(card))

\* hand.index(self.card) in PlayCardAction.execute
HandIndex(hand, card) == ListIndex(hand, card)

\* PlayCardAction.execute that sends the 0-based hand position as it is
PlayCardAction_execute_zero_based(a) ==
    IF a.card # None /\ last_game_state = None THEN Raises
    ELSE
    LET card_index ==
            IF a.card # None
            THEN HandIndex(Val(last_game_state).hand, Val(a.card))
            ELSE a.card_index
        target_index ==
            IF a.target_monster # None
            THEN Some(Val(a.target_monster).monster_index)
            ELSE a.target_index
    IN  IF card_index = -1 THEN Raises
        ELSE IF target_index = None
        THEN Sends(<<a.command, Str(card_index)>>)
        ELSE Sends(<<a.command, Str(card_index), Str(Val(target_index))>>)

\* PlayCardAction.execute
PlayCardAction_execute(a) ==
    IF a.card # None /\ last_game_state = None THEN Raises
    ELSE
    LET card_index ==
            IF a.card # None
            THEN HandIndex(Val(last_game_state).hand, Val(a.card))
            ELSE a.card_index
        hand_card_index == card_index + 1
        target_index ==
            IF a.target_monster # None
            THEN Some(Val(a.target_monster).monster_index)
            ELSE a.target_index
    IN  IF card_index = -1 THEN Raises
        ELSE IF target_index = None
        THEN Sends(<<a.command, Str(hand_card_index)>>)
        ELSE Sends(<<a.command, Str(hand_card_index), Str(Val(target_index))>>)

\* PotionAction.execute
PotionAction_execute(a) ==
    IF a.potion # None /\ last_game_state = None THEN Raises
    ELSE
    LET potion_index ==
            IF a.potion # None
            THEN ListIndex(Val(last_game_state).potions, Val(a.potion))
            ELSE a.potion_index
        arguments == <<a.command, IF a.use THEN "use" ELSE "discard", Str(potion_index)>>
        target_index ==
            IF a.target_monster # None
            THEN Some(Val(a.target_monster).monster_index)
            ELSE a.target_index
    IN  IF potion_index = -1 THEN Raises
        ELSE IF target_index # None
        THEN Sends(Append(arguments, Str(Val(target_index))))
        ELSE Sends(arguments)

\* ChooseAction.execute
ChooseAction_execute(a) ==
    IF a.name # None
    THEN Sends(<<a.command, Val(a.name)>>)
    ELSE Sends(<<a.command, Str(a.choice_index)>>)

\* BuyPotionAction.execute: the Coordinator has no attribute `game`, so the
\* read of coordinator.game raises AttributeError before anything else
BuyPotionAction_execute(a) == Raises

\* BuyPurgeAction.execute
BuyPurgeAction_execute(a) ==
    IF last_game_state = None THEN Raises
    ELSE IF Val(last_game_state).screen_type # "SHOP_SCREEN" THEN Raises
    ELSE Queues(<<ChooseAction(0, Some("purge"))>>
                \o IF a.card_to_purge # None
                   THEN <<CardSelectAction(<<Val(a.card_to_purge)>>)>>
                   ELSE <<>>)

\* CombatRewardAction.execute without the test for full potion storage
CombatRewardAction_execute_any_potion(a) ==
    IF last_game_state = None THEN Raises
    ELSE IF Val(last_game_state).screen_type # "COMBAT_REWARD" THEN Raises
    ELSE
    LET reward_list == Val(last_game_state).screen.rewards
    IN  IF ~ListContains(reward_list, a.combat_reward) THEN Raises
        ELSE ChooseAction_execute(
                 [a EXCEPT !.choice_index =
                      ListIndex(reward_list, a.combat_reward)])

\* CombatRewardAction.execute
CombatRewardAction_execute(a) ==
    IF last_game_state = None THEN Raises
    ELSE IF Val(last_game_state).screen_type # "COMBAT_REWARD" THEN Raises
    ELSE
    LET reward_list == Val(last_game_state).screen.rewards
    IN  IF ~ListContains(reward_list, a.combat_reward) THEN Raises
        ELSE IF a.combat_reward.reward_type = "POTION"
                /\ are_potions_full(Val(last_game_state)) THEN Raises
        ELSE ChooseAction_execute(
                 [a EXCEPT !.choice_index =
                      ListIndex(reward_list, a.combat_reward)])

\* OptionalCardSelectConfirmAction.execute
OptionalCardSelectConfirmAction_execute(a) ==
    IF last_game_state = None THEN Raises
    ELSE
    LET screen_type == Val(last_game_state).screen_type
    IN  IF screen_type = "HAND_SELECT" THEN Queues(<<ProceedAction>>)
        ELSE IF screen_type = "GRID" /\ Val(last_game_state).screen.confirm_up
        THEN Queues(<<ProceedAction>>)
        ELSE Queues(<<StateAction>>)

\* the loop of CardSelectAction.execute that resolves each card to its index
\* in the screen's cards; -1 marks a card that is not available
RECURSIVE ChosenIndices(_, _)
ChosenIndices(cards, available_cards) ==
    IF cards = <<>> THEN <<>>
    ELSE <<ListIndex(available_cards, Head(cards))>>
         \o ChosenIndices(Tail(cards), available_cards)

\* for index in chosen_indices: add_action_to_queue(ChooseAction(choice_index=index))
ChooseEach(chosen_indices) ==
    [i \in 1..Len(chosen_indices) |-> ChooseAction(chosen_indices[i], None)]

\* the choose actions for the cards that precede the first unavailable one
RECURSIVE ChooseWhileAvailable(_)
ChooseWhileAvailable(indices) ==
    IF indices = <<>> \/ Head(indices) = -1 THEN <<>>
    ELSE <<ChooseAction(Head(indices), None)>> \o ChooseWhileAvailable(Tail(indices))

\* CardSelectAction.execute that queues each choice as it resolves the card,
\* so that a later unavailable card raises after some choices were queued
CardSelectAction_execute_eager(a) ==
    IF last_game_state = None THEN Raises
    ELSE
    LET screen_type == Val(last_game_state).screen_type
        screen == Val(last_game_state).screen
    IN  IF screen_type \notin {"HAND_SELECT", "GRID"} THEN Raises
        ELSE
        LET num_remaining_cards == screen.num_cards - Len(screen.selected_cards)
            chosen_indices == ChosenIndices(a.cards, screen.cards)
        IN  IF screen_type = "GRID" /\ ~screen.any_number
               /\ Len(a.cards) # num_remaining_cards THEN Raises
            ELSE IF Len(a.cards) > num_remaining_cards THEN Raises
            ELSE IF \E i \in 1..Len(chosen_indices) : chosen_indices[i] = -1
            THEN [fault |-> TRUE, lines |-> <<>>,
                  push |-> ChooseWhileAvailable(chosen_indices)]
            ELSE Queues(ChooseEach(SortReverse(chosen_indices))
                        \o <<OptionalCardSelectConfirmAction>>)

\* CardSelectAction.execute that queues the choices in the order of the cards,
\* without sorting the indices
CardSelectAction_execute_unsorted(a) ==
    IF last_game_state = None THEN Raises
    ELSE
    LET screen_type == Val(last_game_state).screen_type
        screen == Val(last_game_state).screen
    IN  IF screen_type \notin {"HAND_SELECT", "GRID"} THEN Raises
        ELSE
        LET num_remaining_cards == screen.num_cards - Len(screen.selected_cards)
            chosen_indices == ChosenIndices(a.cards, screen.cards)
        IN  IF screen_type = "GRID" /\ ~screen.any_number
               /\ Len(a.cards) # num_remaining_cards THEN Raises
            ELSE IF Len(a.cards) > num_remaining_cards THEN Raises
            ELSE IF \E i \in 1..Len(chosen_indices) : chosen_indices[i] = -1
            THEN Raises
            ELSE Queues(ChooseEach(chosen_indices)
                        \o <<OptionalCardSelectConfirmAction>>)

\* CardSelectAction.execute
CardSelectAction_execute(a) ==
    IF last_game_state = None THEN Raises
    ELSE
    LET screen_type == Val(last_game_state).screen_type
        screen == Val(last_game_state).screen
    IN  IF screen_type \notin {"HAND_SELECT", "GRID"} THEN Raises
        ELSE
        LET num_selected_cards == Len(screen.selected_cards)
            num_remaining_cards == screen.num_cards - num_selected_cards
            available_cards == screen.cards
            chosen_indices == ChosenIndices(a.cards, available_cards)
        IN  IF screen_type = "GRID" /\ ~screen.any_number
               /\ Len(a.cards) # num_remaining_cards THEN Raises
            ELSE IF Len(a.cards) > num_remaining_cards THEN Raises
            ELSE IF \E i \in 1..Len(chosen_indices) : chosen_indices[i] = -1
            THEN Raises
            ELSE Queues(ChooseEach(SortReverse(chosen_indices))
                        \o <<OptionalCardSelectConfirmAction>>)

\* ChooseMapNodeAction.execute
ChooseMapNodeAction_execute(a) ==
    IF last_game_state = None THEN Raises
    ELSE IF Val(last_game_state).screen_type # "MAP" THEN Raises
    ELSE
    LET next_nodes == Val(last_game_state).screen.next_nodes
    IN  IF ~ListContains(next_nodes, a.node) THEN Raises
        ELSE ChooseAction_execute(
                 [a EXCEPT !.choice_index = ListIndex(next_nodes, a.node)])

\* ChooseMapBossAction.execute
ChooseMapBossAction_execute(a) ==
    IF last_game_state = None THEN Raises
    ELSE IF Val(last_game_state).screen_type # "MAP" THEN Raises
    ELSE IF ~Val(last_game_state).screen.boss_available THEN Raises
    ELSE ChooseAction_execute([a EXCEPT !.name = Some("boss")])

\* StartGameAction.execute
StartGameAction_execute(a) ==
    LET arguments == <<a.command, a.player_class, Str(a.ascension_level)>>
    IN  IF a.seed # None
        THEN Sends(Append(arguments, Val(a.seed)))
        ELSE Sends(arguments)

\* action.execute(coordinator): dispatch on the action's class
execute(a) ==
    CASE a.type = "PlayCardAction" -> PlayCardAction_execute(a)
      [] a.type = "PotionAction" -> PotionAction_execute(a)
      [] a.type = "ChooseAction" -> ChooseAction_execute(a)
      [] a.type \in {"ChooseShopkeeperAction", "OpenChestAction", "BuyCardAction",
                     "BuyRelicAction", "RestAction", "CardRewardAction",
                     "BossRewardAction"} -> ChooseAction_execute(a)
      [] a.type = "BuyPotionAction" -> BuyPotionAction_execute(a)
      [] a.type = "BuyPurgeAction" -> BuyPurgeAction_execute(a)
      [] a.type = "CombatRewardAction" -> CombatRewardAction_execute(a)
      [] a.type = "OptionalCardSelectConfirmAction" ->
             OptionalCardSelectConfirmAction_execute(a)
      [] a.type = "CardSelectAction" -> CardSelectAction_execute(a)
      [] a.type = "ChooseMapNodeAction" -> ChooseMapNodeAction_execute(a)
      [] a.type = "ChooseMapBossAction" -> ChooseMapBossAction_execute(a)
      [] a.type = "StartGameAction" -> StartGameAction_execute(a)
      [] OTHER -> Action_execute(a)

\* can_be_executed that holds a gated action back while no session is active
can_be_executed_in_session(a) ==
    IF a.requires_game_ready THEN game_is_ready /\ in_game ELSE TRUE

\* can_be_executed with the readiness test left out
can_be_executed_ungated(a) == TRUE

\* Action.can_be_executed
can_be_executed(a) ==
    IF a.requires_game_ready THEN game_is_ready ELSE TRUE

----------------------------------------------------------------------------
(* The collaborators: what the registered callbacks may return *)

\* The actions the callbacks can hand to the coordinator in each world: every
\* class of the vocabulary appears, with arguments that do and do not fit the
\* world's snapshots
VocabularyOf(w) ==
    CASE w = "cards" ->
             { PlayCardAction(Some(Strike2), -1, None, None),
               PlayCardAction(Some(Strike1), -1, Some(Monster1), None),
               PlayCardAction(None, 0, None, Some(0)),
               PlayCardAction(None, -1, None, None),
               StateAction }
      [] w = "potions" ->
             { PotionAction(TRUE, Some(FirePotion), -1, None, Some(1)),
               PotionAction(FALSE, Some(BlockPotion), -1, None, None),
               PotionAction(TRUE, None, -1, Some(Monster0), None),
               PotionAction(TRUE, Some(FirePotion), -1, Some(Monster1), None),
               EndTurnAction }
      [] w = "rewards" ->
             { CombatRewardAction(GoldReward), CombatRewardAction(PotionReward),
               CombatRewardAction(CardReward),
               CombatRewardAction(RelicReward("Rewards3")), ProceedAction }
      [] w = "select" ->
             { CardSelectAction(<<Strike1, Defend3>>), CardSelectAction(<<Defend3>>),
               CardSelectAction(<<Defend3, Bash4>>), OptionalCardSelectConfirmAction,
               CancelAction }
      [] w = "map" ->
             { ChooseMapNodeAction(Node21), ChooseMapNodeAction(Node32),
               ChooseMapBossAction, ChooseAction(0, None) }
      [] w = "shop" ->
             { BuyPurgeAction(Some(Strike1)), BuyPurgeAction(None),
               BuyPotionAction(FirePotion), ChooseAction(0, Some("shop")) }
      [] w = "over" ->
             { ProceedAction, StateAction, CombatRewardAction(CardReward),
               StartGameAction("IRONCLAD", 0, None) }

\* error_callback(error) -> Action
ErrorCallbackResults(w) == VocabularyOf(w)

\* state_change_callback(game_state) -> Action
StateChangeCallbackResults(w) == VocabularyOf(w)

\* out_of_game_callback() -> Action
OutOfGameCallbackResults(w) == {StartGameAction("IRONCLAD", 0, None), StateAction}

\* the arguments of a play_one_game call
PlayerClasses == {"IRONCLAD", "THE_SILENT"}

Seeds == {None, Some("SEED1")}

----------------------------------------------------------------------------
(* The Decision Engine: the snapshots it is given *)

\* Game.__init__: the fields the engine reads, as a new Game has them
NewGame ==
    [current_action |-> None, current_hp |-> 0, max_hp |-> 0, floor |-> 0,
     act |-> 0, gold |-> 0, deck |-> <<>>, potions |-> <<>>, map |-> <<>>,
     in_combat |-> FALSE, player |-> None, monsters |-> <<>>, hand |-> <<>>,
     screen |-> None, screen_type |-> "None", room_type |-> "None",
     choice_available |-> FALSE, end_available |-> FALSE,
     play_available |-> FALSE, proceed_available |-> FALSE,
     cancel_available |-> FALSE]

\* Game.from_json: the parsed fields over those __init__ set
Snapshot(fields) == fields @@ NewGame

\* Game.get_real_potions
get_real_potions(game) ==
    LET real(potion) == potion.potion_id # "Potion Slot"
    IN  SelectSeq(game.potions, real)

\* Card.__init__: the fields the engine reads
Card(uuid, name, type, cost, has_target) ==
    [uuid |-> uuid, name |-> name, card_id |-> name, type |-> type, cost |-> cost,
     has_target |-> has_target, is_playable |-> TRUE, exhausts |-> FALSE,
     price |-> 50]

\* Monster.__init__: the fields the engine reads
Monster(name, monster_index, current_hp, damage) ==
    [name |-> name, monster_index |-> monster_index, current_hp |-> current_hp,
     half_dead |-> FALSE, is_gone |-> FALSE, intent |-> "ATTACK",
     move_adjusted_damage |-> Some(damage), move_hits |-> 1]

\* an indexing of the monsters that counts only the monsters still standing
IndexMonsters_among_standing(monsters) ==
    [i \in 1..Len(monsters) |->
        [monsters[i] EXCEPT !.monster_index =
            Cardinality({j \in 1..(i - 1) : monsters[j].current_hp > 0})]]

\* Game.from_json: every monster of the combat state is given its place in
\* the list, counted from 0
IndexMonsters(monsters) ==
    [i \in 1..Len(monsters) |-> [monsters[i] EXCEPT !.monster_index = i - 1]]

\* Player.__init__: the field the engine reads
Player(block) == [block |-> block]

\* Potion.__init__ with the fields use_next_potion reads
UsablePotion(potion, can_use, requires_target) ==
    [can_use |-> can_use, requires_target |-> requires_target] @@ potion

\* RestScreen.__init__
RestScreen(has_rested, rest_options) ==
    [screen_type |-> "REST", has_rested |-> has_rested, rest_options |-> rest_options]

\* CardRewardScreen.__init__
CardRewardScreen(cards, can_bowl, can_skip) ==
    [screen_type |-> "CARD_REWARD", cards |-> cards, can_bowl |-> can_bowl,
     can_skip |-> can_skip]

\* ShopRoomScreen
ShopRoomScreen == [screen_type |-> "SHOP_ROOM"]

\* ChestScreen.__init__
ChestScreen(chest_open) == [screen_type |-> "CHEST", chest_open |-> chest_open]

\* EventScreen.__init__ and from_json
EventScreen(event_id, options) ==
    [screen_type |-> "EVENT", event_id |-> event_id, options |-> options]

\* BossRewardScreen.__init__
BossRewardScreen(relics) == [screen_type |-> "BOSS_REWARD", relics |-> relics]

\* ShopScreen.__init__ with its goods
ShopGoods(cards, relics, purge_available, purge_cost) ==
    [cards |-> cards, relics |-> relics, potions |-> <<>>,
     purge_cost |-> purge_cost] @@ [ShopScreen EXCEPT !.purge_available = purge_available]

\* MapScreen.__init__ with the node the player stands on
MapScreenAt(current_node, next_nodes, boss_available) ==
    [current_node |-> current_node] @@ MapScreen(next_nodes, boss_available)

\* Node.__init__ for a node of the map: Map.from_json links the children
MapNode(x, y, symbol, children) ==
    [x |-> x, y |-> y, symbol |-> symbol, children |-> children]

\* Node.from_json for a node of a map screen: no children are linked
ScreenNode(x, y, symbol) == [x |-> x, y |-> y, symbol |-> symbol]

\* the nodes of layer y in the order Map.add_node inserted them
Layer(map, y) ==
    LET in_layer(node) == node.y = y
    IN  SelectSeq(map, in_layer)

\* Map.get_node
get_node(map, x, y) ==
    LET found(node) == node.x = x /\ node.y = y
        nodes == SelectSeq(map, found)
    IN  IF nodes = <<>> THEN None ELSE Some(nodes[1])

\* max(self.game.map.nodes.keys())
map_height(map) ==
    CHOOSE y \in {map[i].y : i \in 1..Len(map)} :
        \A i \in 1..Len(map) : map[i].y <= y

----------------------------------------------------------------------------
(* The Decision Engine: the scoring Policy it consults *)

\* Priority.MAP_NODE_PRIORITIES: the reward table of each act
MAP_NODE_PRIORITIES == [act \in {Val(dungeon).act} |-> Val(dungeon).node_rewards]

\* Priority.CARD_PRIORITY_LIST: card names, best first
CARD_PRIORITY_LIST ==
    <<"Footwork", "Cleave", "Bash", "Strike", "Defend", "Impervious">>

\* Priority.AOE_CARDS
AOE_CARDS == {"Cleave"}

\* Priority.DEFENSIVE_CARDS
DEFENSIVE_CARDS == {"Defend", "Footwork", "Impervious"}

\* Priority.MAX_COPIES
MAX_COPIES == [name \in {"Footwork", "Cleave", "Bash"} |-> 1]

\* Priority.BOSS_RELIC_PRIORITY_LIST: relic names, best first
BOSS_RELIC_PRIORITY_LIST == <<"Sozu", "Ectoplasm">>

\* the place of a name in a priority list, past the end when it is not listed
Priority(list, name) ==
    IF \E i \in 1..Len(list) : list[i] = name
    THEN CHOOSE i \in 1..Len(list) : list[i] = name
    ELSE Len(list) + 1

\* min(items, key=priority): the first item of the best priority
BestByName(list, items) ==
    LET i == CHOOSE i \in 1..Len(items) :
                 /\ \A j \in 1..Len(items) :
                        Priority(list, items[i].name) <= Priority(list, items[j].name)
                 /\ \A j \in 1..(i - 1) :
                        Priority(list, items[j].name) > Priority(list, items[i].name)
    IN  items[i]

\* Priority.get_best_card
get_best_card(cards) == BestByName(CARD_PRIORITY_LIST, cards)

\* Priority.get_best_card_to_play
get_best_card_to_play(cards) == BestByName(CARD_PRIORITY_LIST, cards)

\* Priority.get_best_boss_relic
get_best_boss_relic(relics) == BestByName(BOSS_RELIC_PRIORITY_LIST, relics)

\* Priority.is_card_aoe
is_card_aoe(card) == card.name \in AOE_CARDS

\* Priority.is_card_defensive
is_card_defensive(card) == card.name \in DEFENSIVE_CARDS

\* Priority.should_skip
should_skip(card) == Priority(CARD_PRIORITY_LIST, card.name) > Len(CARD_PRIORITY_LIST)

\* Priority.needs_more_copies
needs_more_copies(card, num_copies) ==
    card.name \in DOMAIN MAX_COPIES /\ num_copies < MAX_COPIES[card.name]

\* one card put into a list sorted best first, after its equals
InsertCard(sorted, card) ==
    IF \E i \in 1..Len(sorted) :
           Priority(CARD_PRIORITY_LIST, sorted[i].name)
               > Priority(CARD_PRIORITY_LIST, card.name)
    THEN LET i == CHOOSE i \in 1..Len(sorted) :
                      /\ Priority(CARD_PRIORITY_LIST, sorted[i].name)
                             > Priority(CARD_PRIORITY_LIST, card.name)
                      /\ \A j \in 1..(i - 1) :
                             Priority(CARD_PRIORITY_LIST, sorted[j].name)
                                 <= Priority(CARD_PRIORITY_LIST, card.name)
         IN  SubSeq(sorted, 1, i - 1) \o <<card>> \o SubSeq(sorted, i, Len(sorted))
    ELSE Append(sorted, card)

\* sorted(cards, key=priority)
RECURSIVE SortCards(_)
SortCards(cards) ==
    IF cards = <<>> THEN <<>>
    ELSE InsertCard(SortCards(SubSeq(cards, 1, Len(cards) - 1)), cards[Len(cards)])

\* list.reverse
Reversed(list) == [i \in 1..Len(list) |-> list[Len(list) + 1 - i]]

\* Priority.get_sorted_cards
get_sorted_cards(cards, reverse) ==
    IF reverse THEN Reversed(SortCards(cards)) ELSE SortCards(cards)

\* list[:n]
Take(list, n) == SubSeq(list, 1, IF n < Len(list) THEN n ELSE Len(list))

\* Priority.get_cards_for_action
get_cards_for_action(action, cards, max_cards) ==
    Take(get_sorted_cards(cards, TRUE), max_cards)

----------------------------------------------------------------------------
(* The Decision Engine: SimpleAgent *)

\* SimpleAgent.__init__
SimpleAgent ==
    [game |-> NewGame, choose_good_card |-> FALSE, skipped_cards |-> FALSE,
     visited_shop |-> FALSE, map_route |-> <<>>, chosen_class |-> "THE_SILENT"]

\* a method of the agent returns `action` and leaves the agent as `self`;
\* `planned` tells whether it called generate_map_route
Returns(self, action) ==
    [self |-> self, action |-> Some(action), fault |-> FALSE, planned |-> FALSE]

\* a method of the agent falls off its end: it returns None
ReturnsNone(self) ==
    [self |-> self, action |-> None, fault |-> FALSE, planned |-> FALSE]

\* a method of the agent raises
Throws(self) ==
    [self |-> self, action |-> None, fault |-> TRUE, planned |-> FALSE]

\* list[i] for a Python list: counted from the end when i is negative,
\* IndexError (None) outside the list
Subscript(list, i) ==
    IF i >= 0 /\ i < Len(list) THEN Some(list[i + 1])
    ELSE IF i < 0 /\ -i <= Len(list) THEN Some(list[Len(list) + i + 1])
    ELSE None

\* the monsters a card can be aimed at
available_monsters(game) ==
    LET alive(monster) ==
            monster.current_hp > 0 /\ ~monster.half_dead /\ ~monster.is_gone
    IN  SelectSeq(game.monsters, alive)

\* SimpleAgent.get_low_hp_target: min() keeps the first of the lowest
get_low_hp_target(game) ==
    LET monsters == available_monsters(game)
        i == CHOOSE i \in 1..Len(monsters) :
                 /\ \A j \in 1..Len(monsters) :
                        monsters[i].current_hp <= monsters[j].current_hp
                 /\ \A j \in 1..(i - 1) :
                        monsters[j].current_hp > monsters[i].current_hp
    IN  monsters[i]

\* SimpleAgent.get_high_hp_target: max() keeps the first of the highest
get_high_hp_target(game) ==
    LET monsters == available_monsters(game)
        i == CHOOSE i \in 1..Len(monsters) :
                 /\ \A j \in 1..Len(monsters) :
                        monsters[i].current_hp >= monsters[j].current_hp
                 /\ \A j \in 1..(i - 1) :
                        monsters[j].current_hp < monsters[i].current_hp
    IN  monsters[i]

\* SimpleAgent.many_monsters_alive
many_monsters_alive(game) == Len(available_monsters(game)) > 1

\* the damage get_incoming_damage adds for the monsters of a list
RECURSIVE DamageOf(_, _)
DamageOf(monsters, act) ==
    IF monsters = <<>> THEN 0
    ELSE LET monster == Head(monsters)
             damage ==
                 IF monster.is_gone \/ monster.half_dead THEN 0
                 ELSE IF monster.move_adjusted_damage # None
                 THEN Val(monster.move_adjusted_damage) * monster.move_hits
                 ELSE IF monster.intent = "NONE" THEN 5 * act
                 ELSE 0
         IN  damage + DamageOf(Tail(monsters), act)

\* SimpleAgent.get_incoming_damage
get_incoming_damage(game) == DamageOf(game.monsters, game.act)

\* the end of get_play_card_action: the action that plays card_to_play
PlayChosenCard(game, card_to_play) ==
    IF card_to_play.has_target
    THEN IF available_monsters(game) = <<>> THEN EndTurnAction
         ELSE IF card_to_play.type = "ATTACK"
         THEN PlayCardAction(Some(card_to_play), -1,
                             Some(get_low_hp_target(game)), None)
         ELSE PlayCardAction(Some(card_to_play), -1,
                             Some(get_high_hp_target(game)), None)
    ELSE PlayCardAction(Some(card_to_play), -1, None, None)

\* SimpleAgent.get_play_card_action
get_play_card_action(game) ==
    LET playable(card) == card.is_playable
        zero_cost(card) == card.cost = 0
        attack(card) == card.type = "ATTACK"
        non_attack(card) == card.type # "ATTACK"
        nonzero_cost(card) == card.cost # 0
        offensive(card) == ~is_card_defensive(card)
        lasting(card) == ~card.exhausts
        playable_cards == SelectSeq(game.hand, playable)
        zero_cost_cards == SelectSeq(playable_cards, zero_cost)
        zero_cost_attacks == SelectSeq(zero_cost_cards, attack)
        zero_cost_non_attacks == SelectSeq(zero_cost_cards, non_attack)
        all_nonzero_cost_cards == SelectSeq(playable_cards, nonzero_cost)
        aoe_cards == SelectSeq(playable_cards, is_card_aoe)
        offensive_cards == SelectSeq(all_nonzero_cost_cards, offensive)
        nonzero_cost_cards ==
            IF Val(game.player).block > get_incoming_damage(game) - (game.act + 4)
            THEN IF Len(offensive_cards) > 0 THEN offensive_cards
                 ELSE SelectSeq(all_nonzero_cost_cards, lasting)
            ELSE all_nonzero_cost_cards
    IN  IF Len(playable_cards) = 0 THEN EndTurnAction
        ELSE IF Len(zero_cost_non_attacks) > 0
        THEN PlayChosenCard(game, get_best_card_to_play(zero_cost_non_attacks))
        ELSE IF Len(nonzero_cost_cards) > 0
        THEN LET card_to_play == get_best_card_to_play(nonzero_cost_cards)
             IN  IF /\ Len(aoe_cards) > 0
                    /\ many_monsters_alive(game)
                    /\ card_to_play.type = "ATTACK"
                 THEN PlayChosenCard(game, get_best_card_to_play(aoe_cards))
                 ELSE PlayChosenCard(game, card_to_play)
        ELSE IF Len(zero_cost_attacks) > 0
        THEN PlayChosenCard(game, get_best_card_to_play(zero_cost_attacks))
        ELSE EndTurnAction

\* SimpleAgent.use_next_potion: the action for the first potion that can be
\* used, None when there is none; min() of no monster raises
use_next_potion(self) ==
    LET game == self.game
        usable(potion) == potion.can_use
        potions == SelectSeq(get_real_potions(game), usable)
    IN  IF potions = <<>> THEN ReturnsNone(self)
        ELSE IF potions[1].requires_target
        THEN IF available_monsters(game) = <<>> THEN Throws(self)
             ELSE Returns(self, PotionAction(TRUE, Some(potions[1]), -1,
                                             Some(get_low_hp_target(game)), None))
        ELSE Returns(self, PotionAction(TRUE, Some(potions[1]), -1, None, None))

\* SimpleAgent.choose_rest_option that tries SMITH before REST
choose_rest_option_smith_first(self) ==
    LET game == self.game
        rest_options == game.screen.rest_options
        offered(option) == \E i \in 1..Len(rest_options) : rest_options[i] = option
    IN  IF Len(rest_options) > 0 /\ ~game.screen.has_rested
        THEN IF offered("SMITH") THEN Returns(self, RestAction("SMITH"))
             ELSE IF offered("REST") /\ 2 * game.current_hp < game.max_hp
             THEN Returns(self, RestAction("REST"))
             ELSE IF offered("LIFT") THEN Returns(self, RestAction("LIFT"))
             ELSE IF offered("DIG") THEN Returns(self, RestAction("DIG"))
             ELSE Returns(self, ChooseAction(0, None))
        ELSE Returns(self, ProceedAction)

\* SimpleAgent.choose_rest_option; current_hp < max_hp / 2 and
\* current_hp < max_hp * 0.9 are compared in whole numbers
choose_rest_option(self) ==
    LET game == self.game
        rest_options == game.screen.rest_options
        offered(option) == \E i \in 1..Len(rest_options) : rest_options[i] = option
    IN  IF Len(rest_options) > 0 /\ ~game.screen.has_rested
        THEN IF offered("REST") /\ 2 * game.current_hp < game.max_hp
             THEN Returns(self, RestAction("REST"))
             ELSE IF /\ offered("REST")
                     /\ game.act # 1
                     /\ game.floor % 17 = 15
                     /\ 10 * game.current_hp < 9 * game.max_hp
             THEN Returns(self, RestAction("REST"))
             ELSE IF offered("SMITH") THEN Returns(self, RestAction("SMITH"))
             ELSE IF offered("LIFT") THEN Returns(self, RestAction("LIFT"))
             ELSE IF offered("DIG") THEN Returns(self, RestAction("DIG"))
             ELSE IF offered("REST") /\ game.current_hp < game.max_hp
             THEN Returns(self, RestAction("REST"))
             ELSE Returns(self, ChooseAction(0, None))
        ELSE Returns(self, ProceedAction)

\* SimpleAgent.count_copies_in_deck
count_copies_in_deck(game, card) ==
    LET same(deck_card) == deck_card.card_id = card.card_id
    IN  Len(SelectSeq(game.deck, same))

\* SimpleAgent.choose_card_reward
choose_card_reward(self) ==
    LET game == self.game
        reward_cards == game.screen.cards
        wanted(card) == needs_more_copies(card, count_copies_in_deck(game, card))
        pickable_cards ==
            IF game.screen.can_skip /\ ~game.in_combat
            THEN SelectSeq(reward_cards, wanted)
            ELSE reward_cards
    IN  IF Len(pickable_cards) > 0
        THEN Returns(self, CardRewardAction(get_best_card(pickable_cards)))
        ELSE IF game.screen.can_bowl THEN Returns(self, CardRewardAction_bowl)
        ELSE Returns([self EXCEPT !.skipped_cards = TRUE], CancelAction)

\* node.children as Map.from_json linked them: the children found on the map
children(map, node) ==
    LET on_map(child) == get_node(map, child.x, child.y) # None
        linked == SelectSeq(node.children, on_map)
    IN  [i \in 1..Len(linked) |-> Val(get_node(map, linked[i].x, linked[i].y))]

\* the (node, child) pairs in the order the loops of generate_map_route visit
\* them: the nodes of a layer in order, the children of each in order
RECURSIVE Edges(_, _)
Edges(map, nodes) ==
    IF nodes = <<>> THEN <<>>
    ELSE LET node == Head(nodes)
             linked == children(map, node)
         IN  [i \in 1..Len(linked) |-> [x |-> node.x, child |-> linked[i]]]
                 \o Edges(map, Tail(nodes))

\* the inner loops of generate_map_route over the pairs `edges`: a child's
\* entry is replaced when the path through the node is strictly better
RECURSIVE Relax(_, _, _, _)
Relax(best, edges, below, node_rewards) ==
    IF edges = <<>> THEN best
    ELSE LET x == Head(edges).x
             child == Head(edges).child
             test_child_reward == below[x].reward + node_rewards[child.symbol]
         IN  Relax(IF test_child_reward > best[child.x].reward
                   THEN [best EXCEPT ![child.x] =
                            [reward |-> test_child_reward, parent |-> x]]
                   ELSE best,
                   Tail(edges), below, node_rewards)

\* the columns of a layer
Columns(map, y) == {Layer(map, y)[i].x : i \in 1..Len(Layer(map, y))}

\* the symbol of the node Map.add_node kept for column x of layer y
SymbolAt(map, x, y) ==
    LET at(node) == node.x = x
        nodes == SelectSeq(Layer(map, y), at)
    IN  nodes[Len(nodes)].symbol

\* min(node_rewards.values())
MinReward(node_rewards) ==
    CHOOSE r \in {node_rewards[s] : s \in DOMAIN node_rewards} :
        \A s \in DOMAIN node_rewards : r <= node_rewards[s]

\* best_rewards[y] and best_parents[y] of generate_map_route, as one table
\* from the columns of layer y
RECURSIVE best_rewards(_, _, _)
best_rewards(map, node_rewards, y) ==
    IF y = 0
    THEN [x \in Columns(map, 0) |->
             [reward |-> node_rewards[SymbolAt(map, x, 0)], parent |-> 0]]
    ELSE Relax([x \in Columns(map, y) |->
                   [reward |-> MinReward(node_rewards) * 20, parent |-> -1]],
               Edges(map, Layer(map, y - 1)),
               best_rewards(map, node_rewards, y - 1),
               node_rewards)

\* max(best_rewards[y].keys(), key=...): the first column, in the order the
\* layer's columns were inserted, of the highest reward
BestColumn(map, best, y) ==
    LET nodes == Layer(map, y)
        i == CHOOSE i \in 1..Len(nodes) :
                 /\ \A j \in 1..Len(nodes) :
                        best[nodes[i].x].reward >= best[nodes[j].x].reward
                 /\ \A j \in 1..(i - 1) :
                        best[nodes[j].x].reward < best[nodes[i].x].reward
    IN  nodes[i].x

\* the walk down the parent pointers: best_path[0..y] given best_path[y] = x,
\* None when best_parents[y] has no entry x (KeyError)
RECURSIVE best_path(_, _, _, _)
best_path(map, node_rewards, y, x) ==
    IF y = 0 THEN Some(<<x>>)
    ELSE LET best == best_rewards(map, node_rewards, y)
         IN  IF x \notin DOMAIN best THEN None
             ELSE LET below == best_path(map, node_rewards, y - 1, best[x].parent)
                  IN  IF below = None THEN None
                      ELSE Some(Append(Val(below), x))

\* SimpleAgent.generate_map_route: the new map_route, None when it raises
generate_map_route(game) ==
    LET node_rewards == MAP_NODE_PRIORITIES[game.act]
        height == map_height(game.map)
    IN  best_path(game.map, node_rewards, height,
                  BestColumn(game.map, best_rewards(game.map, node_rewards, height),
                             height))

\* the first of the next nodes in column chosen_x, None when there is none
FirstInColumn(next_nodes, chosen_x) ==
    LET in_column(choice) == choice.x = chosen_x
        choices == SelectSeq(next_nodes, in_column)
    IN  IF choices = <<>> THEN None ELSE Some(choices[1])

\* the end of make_map_choice that reads the route before it looks for the boss
ChooseOnMap_route_first(self) ==
    LET screen == self.game.screen
        chosen_x == Subscript(self.map_route, screen.current_node.y + 1)
        choice == IF chosen_x = None THEN None
                  ELSE FirstInColumn(screen.next_nodes, Val(chosen_x))
    IN  IF choice # None THEN Returns(self, ChooseMapNodeAction(Val(choice)))
        ELSE IF screen.boss_available THEN Returns(self, ChooseMapBossAction)
        ELSE IF chosen_x = None THEN Throws(self)
        ELSE Returns(self, ChooseAction(0, None))

\* the end of make_map_choice, after the planning
ChooseOnMap(self) ==
    LET screen == self.game.screen
        chosen_x == Subscript(self.map_route, screen.current_node.y + 1)
    IN  IF screen.boss_available THEN Returns(self, ChooseMapBossAction)
        ELSE IF chosen_x = None THEN Throws(self)
        ELSE LET choice == FirstInColumn(screen.next_nodes, Val(chosen_x))
             IN  IF choice # None THEN Returns(self, ChooseMapNodeAction(Val(choice)))
                 ELSE Returns(self, ChooseAction(0, None))

\* make_map_choice that plans the route on every map screen
make_map_choice_plans_always(self) ==
    LET game == self.game
        route == generate_map_route(game)
    IN  IF route = None THEN [Throws(self) EXCEPT !.planned = TRUE]
        ELSE [ChooseOnMap([self EXCEPT !.map_route = Val(route),
                                       !.game.screen.current_node.y = -1])
                 EXCEPT !.planned = TRUE]

\* SimpleAgent.make_map_choice: at the entrance layer the route is planned
\* and the current node of the snapshot is moved to layer -1
make_map_choice(self) ==
    LET game == self.game
        screen == game.screen
    IN  IF Len(screen.next_nodes) > 0 /\ screen.next_nodes[1].y = 0
        THEN LET route == generate_map_route(game)
             IN  IF route = None THEN [Throws(self) EXCEPT !.planned = TRUE]
                 ELSE [ChooseOnMap([self EXCEPT !.map_route = Val(route),
                                                !.game.screen.current_node.y = -1])
                          EXCEPT !.planned = TRUE]
        ELSE ChooseOnMap(self)

\* the COMBAT_REWARD branch of handle_screen that takes card rewards again
\* after they were skipped
handle_combat_reward_takes_cards(self) ==
    LET game == self.game
        taken(reward_item) ==
            ~(reward_item.reward_type = "POTION" /\ are_potions_full(game))
        rewards == SelectSeq(game.screen.rewards, taken)
    IN  IF rewards # <<>> THEN Returns(self, CombatRewardAction(rewards[1]))
        ELSE Returns([self EXCEPT !.skipped_cards = FALSE], ProceedAction)

\* the COMBAT_REWARD branch of handle_screen that forgets that cards were
\* skipped whatever it answers
handle_combat_reward_forgets_skip(self) ==
    LET game == self.game
        taken(reward_item) ==
            /\ ~(reward_item.reward_type = "POTION" /\ are_potions_full(game))
            /\ ~(reward_item.reward_type = "CARD" /\ self.skipped_cards)
        rewards == SelectSeq(game.screen.rewards, taken)
    IN  IF rewards # <<>>
        THEN Returns([self EXCEPT !.skipped_cards = FALSE], CombatRewardAction(rewards[1]))
        ELSE Returns([self EXCEPT !.skipped_cards = FALSE], ProceedAction)

\* the COMBAT_REWARD branch of handle_screen: the first reward that is neither
\* a potion with the slots full nor a card after cards were skipped
handle_combat_reward(self) ==
    LET game == self.game
        taken(reward_item) ==
            /\ ~(reward_item.reward_type = "POTION" /\ are_potions_full(game))
            /\ ~(reward_item.reward_type = "CARD" /\ self.skipped_cards)
        rewards == SelectSeq(game.screen.rewards, taken)
    IN  IF rewards # <<>> THEN Returns(self, CombatRewardAction(rewards[1]))
        ELSE Returns([self EXCEPT !.skipped_cards = FALSE], ProceedAction)

\* the event ids of handle_screen whose last option is taken
LAST_OPTION_EVENTS ==
    {"Vampires", "Masked Bandits", "Knowing Skull", "Ghosts", "Liars Game",
     "Golden Idol", "Drug Dealer", "The Library"}

\* the SHOP_SCREEN branch of handle_screen
handle_shop_screen(self) ==
    LET game == self.game
        screen == game.screen
        bought(card) == game.gold >= card.price /\ ~should_skip(card)
        affordable(relic) == game.gold >= relic.price
        cards == SelectSeq(screen.cards, bought)
        relics == SelectSeq(screen.relics, affordable)
    IN  IF screen.purge_available /\ game.gold >= screen.purge_cost
        THEN Returns(self, ChooseAction(0, Some("purge")))
        ELSE IF cards # <<>> THEN Returns(self, BuyCardAction(cards[1]))
        ELSE IF relics # <<>> THEN Returns(self, BuyRelicAction(relics[1]))
        ELSE Returns(self, CancelAction)

\* SimpleAgent.handle_screen
handle_screen(self) ==
    LET game == self.game
        screen == game.screen
    IN  CASE game.screen_type = "EVENT" ->
                 IF screen.event_id \in LAST_OPTION_EVENTS
                 THEN Returns(self, ChooseAction(Len(screen.options) - 1, None))
                 ELSE Returns(self, ChooseAction(0, None))
          [] game.screen_type = "CHEST" -> Returns(self, OpenChestAction)
          [] game.screen_type = "SHOP_ROOM" ->
                 IF ~self.visited_shop
                 THEN Returns([self EXCEPT !.visited_shop = TRUE],
                              ChooseShopkeeperAction)
                 ELSE Returns([self EXCEPT !.visited_shop = FALSE], ProceedAction)
          [] game.screen_type = "REST" -> choose_rest_option(self)
          [] game.screen_type = "CARD_REWARD" -> choose_card_reward(self)
          [] game.screen_type = "COMBAT_REWARD" -> handle_combat_reward(self)
          [] game.screen_type = "MAP" -> make_map_choice(self)
          [] game.screen_type = "BOSS_REWARD" ->
                 Returns(self, BossRewardAction(get_best_boss_relic(screen.relics)))
          [] game.screen_type = "SHOP_SCREEN" -> handle_shop_screen(self)
          [] game.screen_type = "GRID" ->
                 IF ~game.choice_available THEN Returns(self, ProceedAction)
                 ELSE Returns(self, CardSelectAction(
                          Take(get_sorted_cards(
                                   screen.cards,
                                   ~(screen.for_upgrade \/ self.choose_good_card)),
                               screen.num_cards)))
          [] game.screen_type = "HAND_SELECT" ->
                 IF ~game.choice_available THEN Returns(self, ProceedAction)
                 ELSE Returns(self, CardSelectAction(
                          get_cards_for_action(
                              game.current_action, screen.cards,
                              IF screen.num_cards < 3 THEN screen.num_cards ELSE 3)))
          [] OTHER -> Returns(self, ProceedAction)

\* the error texts the application reports
ErrorTexts == {"Invalid command"}

\* SimpleAgent.handle_error: raise Exception(error)
handle_error(self, error) == Throws(self)

\* get_next_action_in_game that looks at proceed before a pending screen choice
get_next_action_in_game_proceed_first(agent_before, game_state) ==
    LET self == [agent_before EXCEPT !.game = game_state]
        game == self.game
    IN  IF game.proceed_available THEN Returns(self, ProceedAction)
        ELSE IF game.choice_available THEN handle_screen(self)
        ELSE IF game.play_available
        THEN LET potion_action ==
                     IF /\ game.room_type = "MonsterRoomBoss"
                        /\ Len(get_real_potions(game)) > 0
                     THEN use_next_potion(self)
                     ELSE ReturnsNone(self)
             IN  IF potion_action.fault \/ potion_action.action # None
                 THEN potion_action
                 ELSE Returns(self, get_play_card_action(game))
        ELSE IF game.end_available THEN Returns(self, EndTurnAction)
        ELSE IF game.cancel_available THEN Returns(self, CancelAction)
        ELSE ReturnsNone(self)

\* SimpleAgent.get_next_action_in_game
get_next_action_in_game(agent_before, game_state) ==
    LET self == [agent_before EXCEPT !.game = game_state]
        game == self.game
    IN  IF game.choice_available THEN handle_screen(self)
        ELSE IF game.proceed_available THEN Returns(self, ProceedAction)
        ELSE IF game.play_available
        THEN LET potion_action ==
                     IF /\ game.room_type = "MonsterRoomBoss"
                        /\ Len(get_real_potions(game)) > 0
                     THEN use_next_potion(self)
                     ELSE ReturnsNone(self)
             IN  IF potion_action.fault \/ potion_action.action # None
                 THEN potion_action
                 ELSE Returns(self, get_play_card_action(game))
        ELSE IF game.end_available THEN Returns(self, EndTurnAction)
        ELSE IF game.cancel_available THEN Returns(self, CancelAction)
        ELSE ReturnsNone(self)

----------------------------------------------------------------------------
(* The Coordinator *)

\* history: the engine has done nothing yet in the room the player is in
NewEncounter == [skipped |-> FALSE, shop |-> 0]

\* history: the encounter after the engine decided on game_state: a card
\* reward answered with cancel was skipped, a decision on the shop room counts
\* (up to two)
EncounterAfterDecision(game_state, action) ==
    IF ~game_state.choice_available THEN encounter
    ELSE IF game_state.screen_type = "CARD_REWARD" /\ action = Some(CancelAction)
    THEN [encounter EXCEPT !.skipped = TRUE]
    ELSE IF game_state.screen_type = "SHOP_ROOM"
    THEN [encounter EXCEPT !.shop = IF @ < 2 THEN @ + 1 ELSE @]
    ELSE encounter

\* history: the encounter after `action` was executed on the snapshot `game`:
\* proceeding from the rewards ends the encounter the skip belongs to,
\* proceeding from the shop room ends the visit of the shop, and choosing the
\* next room on the map ends both
EncounterAfterExecute(action, game) ==
    IF action.type \in {"ChooseMapNodeAction", "ChooseMapBossAction"}
       /\ game.screen_type = "MAP"
    THEN NewEncounter
    ELSE IF action.type = "ProceedAction" /\ game.screen_type = "COMBAT_REWARD"
    THEN [encounter EXCEPT !.skipped = FALSE]
    ELSE IF action.type = "ProceedAction" /\ game.screen_type = "SHOP_ROOM"
    THEN [encounter EXCEPT !.shop = 0]
    ELSE encounter

\* nothing has passed through the pumps
PumpsIdle ==
    /\ stdin = <<>>
    /\ stdin_input = <<>>
    /\ typed = <<>>
    /\ stdout = <<>>
    /\ got = <<>>
    /\ sent = <<>>

\* Coordinator.__init__
Init ==
    /\ pc = "constructed"
    /\ input_queue = <<>>
    /\ output_queue = <<>>
    /\ action_queue = <<>>
    /\ game_is_ready = FALSE
    /\ stop_after_run = FALSE
    /\ in_game = FALSE
    /\ last_game_state = None
    /\ last_error = None
    /\ result = None
    /\ n_read = 0
    /\ world \in Worlds
    /\ tx = None
    /\ cb = None
    /\ rx = None
    /\ ex = None
    /\ ready_seen = FALSE
    /\ sent_any = FALSE
    /\ last_in_session = None
    /\ decided_on = None
    /\ drain = None
    /\ agent = SimpleAgent
    /\ dungeon = None
    /\ place = None
    /\ decision = None
    /\ plans = 0
    /\ encounter = NewEncounter
    /\ PumpsIdle

\* the record kept of a line written by `by`
Written(line, by, from_queue) ==
    [line |-> line, gate |-> game_is_ready, ready_seen |-> ready_seen,
     sent_before |-> sent_any, by |-> by, from_queue |-> from_queue,
     in_game |-> in_game]

\* send_message that forgets to close the gate
send_message_gate_open(lines, by, from_queue) ==
    /\ output_queue' = output_queue \o lines
    /\ game_is_ready' = game_is_ready
    /\ tx' = IF lines # <<>> THEN Some(Written(lines[Len(lines)], by, from_queue))
             ELSE None
    /\ ready_seen' = IF lines # <<>> THEN FALSE ELSE ready_seen
    /\ sent_any' = (sent_any \/ lines # <<>>)

\* Coordinator.send_message, for the lines one call chain sends
send_message(lines, by, from_queue) ==
    /\ output_queue' = output_queue \o lines
    /\ game_is_ready' = IF lines # <<>> THEN FALSE ELSE game_is_ready
    /\ tx' = IF lines # <<>> THEN Some(Written(lines[Len(lines)], by, from_queue))
             ELSE None
    /\ ready_seen' = IF lines # <<>> THEN FALSE ELSE ready_seen
    /\ sent_any' = (sent_any \/ lines # <<>>)

\* history: the record of the drain of a compound selection after `action`
\* was executed with effect eff: a CardSelectAction that expands with nothing
\* else pending starts one, the confirm action records the snapshot it read,
\* any other action adds the lines it wrote, until the record holds more
\* lines than cards were selected (a drain has one line for each card and one
\* to confirm)
DrainAfterExecute(action, eff) ==
    IF eff.fault THEN None
    ELSE IF action.type = "CardSelectAction"
    THEN IF Tail(action_queue) # <<>> THEN None
         ELSE Some([cards |-> action.cards,
                    available |-> Val(last_game_state).screen.cards,
                    lines |-> <<>>, confirm |-> None, clean |-> TRUE])
    ELSE IF drain = None THEN None
    ELSE IF action.type = "OptionalCardSelectConfirmAction"
    THEN Some([Val(drain) EXCEPT !.confirm = last_game_state])
    ELSE IF Len(Val(drain).lines) > Len(Val(drain).cards) THEN drain
    ELSE Some([Val(drain) EXCEPT !.lines = @ \o eff.lines])

\* history: the record of the drain after a message: an error message and a
\* new decision end it, an out-of-session message leaves it no longer clean
DrainAfterMessage(message, ingame, perform_callbacks) ==
    IF drain = None \/ message.error # None THEN None
    ELSE IF ~ingame THEN Some([Val(drain) EXCEPT !.clean = FALSE])
    ELSE IF perform_callbacks /\ action_queue = <<>> THEN None
    ELSE drain

\* execute_next_action with the actions an action pushes put in front of the
\* actions that were waiting behind it
execute_next_action_pushes_front(next_pc) ==
    LET action == Head(action_queue)
        eff == execute(action)
    IN  /\ send_message(eff.lines, action.type, TRUE)
        /\ action_queue' = eff.push \o Tail(action_queue)
        /\ ex' = Some(action)
        /\ drain' = DrainAfterExecute(action, eff)
        /\ pc' = IF eff.fault THEN "fault" ELSE next_pc

\* Coordinator.execute_next_action: pop the head and execute it; an exception
\* raised by execute leaves the loop that called it
execute_next_action(next_pc) ==
    LET action == Head(action_queue)
        eff == execute(action)
    IN  /\ send_message(eff.lines, action.type, TRUE)
        /\ action_queue' = Tail(action_queue) \o eff.push
        /\ ex' = Some(action)
        /\ drain' = DrainAfterExecute(action, eff)
        /\ pc' = IF eff.fault THEN "fault" ELSE next_pc

\* Coordinator.execute_next_action_if_ready
execute_next_action_if_ready(next_pc) ==
    /\ IF Len(action_queue) > 0 /\ can_be_executed(Head(action_queue))
       THEN execute_next_action(next_pc)
       ELSE /\ pc' = next_pc
            /\ ex' = None
            /\ tx' = None
            /\ UNCHANGED <<output_queue, action_queue, game_is_ready,
                           ready_seen, sent_any, drain>>
    /\ cb' = None
    /\ rx' = None
    /\ UNCHANGED <<input_queue, stop_after_run, in_game, last_game_state,
                   last_error, result, n_read, world, last_in_session, decided_on>>

\* Dispatch whose error branch enqueues the recovery action without clearing
Dispatch_error_keeps_queue(error, ingame, queue, new_action) ==
    IF error # None
    THEN [queue |-> Append(queue, new_action),
          cb |-> Some([kind |-> "error", result |-> new_action])]
    ELSE IF ingame
    THEN IF Len(queue) = 0
         THEN [queue |-> Append(queue, new_action),
               cb |-> Some([kind |-> "state_change", result |-> new_action])]
         ELSE [queue |-> queue, cb |-> None]
    ELSE IF stop_after_run
    THEN [queue |-> <<>>, cb |-> None]
    ELSE [queue |-> Append(queue, new_action),
          cb |-> Some([kind |-> "out_of_game", result |-> new_action])]

\* Dispatch whose in-session branch asks for a decision on every message
Dispatch_decides_always(error, ingame, queue, new_action) ==
    IF error # None
    THEN [queue |-> <<new_action>>, cb |-> Some([kind |-> "error", result |-> new_action])]
    ELSE IF ingame
    THEN [queue |-> Append(queue, new_action),
          cb |-> Some([kind |-> "state_change", result |-> new_action])]
    ELSE IF stop_after_run
    THEN [queue |-> <<>>, cb |-> None]
    ELSE [queue |-> Append(queue, new_action),
          cb |-> Some([kind |-> "out_of_game", result |-> new_action])]

\* Dispatch whose out-of-session branch ignores the stop flag
Dispatch_ignores_stop(error, ingame, queue, new_action) ==
    IF error # None
    THEN [queue |-> <<new_action>>, cb |-> Some([kind |-> "error", result |-> new_action])]
    ELSE IF ingame
    THEN IF Len(queue) = 0
         THEN [queue |-> Append(queue, new_action),
               cb |-> Some([kind |-> "state_change", result |-> new_action])]
         ELSE [queue |-> queue, cb |-> None]
    ELSE [queue |-> Append(queue, new_action),
          cb |-> Some([kind |-> "out_of_game", result |-> new_action])]

\* Dispatch whose out-of-session branch asks the out-of-game callback only
\* when nothing is pending
Dispatch_one_request(error, ingame, queue, new_action) ==
    IF error # None
    THEN [queue |-> <<new_action>>, cb |-> Some([kind |-> "error", result |-> new_action])]
    ELSE IF ingame
    THEN IF Len(queue) = 0
         THEN [queue |-> Append(queue, new_action),
               cb |-> Some([kind |-> "state_change", result |-> new_action])]
         ELSE [queue |-> queue, cb |-> None]
    ELSE IF stop_after_run
    THEN [queue |-> <<>>, cb |-> None]
    ELSE IF Len(queue) = 0
    THEN [queue |-> Append(queue, new_action),
          cb |-> Some([kind |-> "out_of_game", result |-> new_action])]
    ELSE [queue |-> queue, cb |-> None]

\* the queue after the callbacks of receive_game_state_update, and the record
\* of the callback invoked, for a message that set error and in-game flag
Dispatch(error, ingame, queue, new_action) ==
    IF error # None
    THEN [queue |-> <<new_action>>, cb |-> Some([kind |-> "error", result |-> new_action])]
    ELSE IF ingame
    THEN IF Len(queue) = 0
         THEN [queue |-> Append(queue, new_action),
               cb |-> Some([kind |-> "state_change", result |-> new_action])]
         ELSE [queue |-> queue, cb |-> None]
    ELSE IF stop_after_run
    THEN [queue |-> <<>>, cb |-> None]
    ELSE [queue |-> Append(queue, new_action),
          cb |-> Some([kind |-> "out_of_game", result |-> new_action])]

\* the results the callback that Dispatch invokes can return
CallbackResults(error, ingame) ==
    IF error # None THEN ErrorCallbackResults(world)
    ELSE IF ingame THEN StateChangeCallbackResults(world)
    ELSE OutOfGameCallbackResults(world)

\* NextGameState that drops the snapshot when the message carries an error
NextGameState_error_drops(message, old_state) ==
    IF message.error # None THEN None
    ELSE IF message.in_game THEN message.game_state
    ELSE old_state

\* the snapshot kept after a message: replaced only by a message without an
\* error whose in_game flag is set
NextGameState(message, old_state) ==
    IF message.error = None /\ message.in_game
    THEN message.game_state
    ELSE old_state

\* NextInGame that takes the flag from an error message too
NextInGame_from_error(message, old_flag) == message.in_game

\* the in-game flag after a message: an error message leaves it alone
NextInGame(message, old_flag) ==
    IF message.error = None THEN message.in_game ELSE old_flag

\* Coordinator.receive_game_state_update(block, perform_callbacks)
receive_game_state_update(block, perform_callbacks, next_pc) ==
    /\ block => input_queue # <<>>
    /\ pc' = IF input_queue # <<>> /\ Rejected(Head(input_queue))
             THEN "protocol_error" ELSE next_pc
    /\ tx' = None
    /\ ex' = None
    /\ UNCHANGED <<output_queue, stop_after_run, result, n_read, world, sent_any>>
    /\ IF input_queue = <<>>
       THEN /\ rx' = None
            /\ cb' = None
            /\ UNCHANGED <<input_queue, action_queue, game_is_ready, in_game,
                           last_game_state, last_error, ready_seen,
                           last_in_session, decided_on, drain>>
       ELSE IF json_loads(Head(input_queue)) = None
       THEN /\ input_queue' = Tail(input_queue)
            /\ rx' = None
            /\ cb' = None
            /\ UNCHANGED <<action_queue, game_is_ready, in_game, last_game_state,
                           last_error, ready_seen, last_in_session, decided_on, drain>>
       ELSE IF from_json_raises(Head(input_queue))
       THEN /\ input_queue' = Tail(input_queue)
            /\ last_error' = Head(input_queue).error
            /\ game_is_ready' = Head(input_queue).ready_for_command
            /\ in_game' = Head(input_queue).in_game
            /\ ready_seen' = (ready_seen \/ Head(input_queue).ready_for_command)
            /\ rx' = None
            /\ cb' = None
            /\ UNCHANGED <<action_queue, last_game_state, last_in_session,
                           decided_on, drain>>
       ELSE LET message == Head(input_queue)
                     ingame == NextInGame(message, in_game)
                 IN  /\ input_queue' = Tail(input_queue)
                     /\ last_error' = message.error
                     /\ game_is_ready' = message.ready_for_command
                     /\ in_game' = ingame
                     /\ last_game_state' = NextGameState(message, last_game_state)
                     /\ rx' = Some([message |-> message, callbacks |-> perform_callbacks,
                                    block |-> block, queue_before |-> action_queue])
                     /\ ready_seen' = (ready_seen \/ message.ready_for_command)
                     /\ last_in_session' =
                            IF message.game_state # None /\ message.in_game
                            THEN message.game_state ELSE last_in_session
                     /\ IF perform_callbacks
                        THEN \E new_action \in CallbackResults(message.error, ingame) :
                                 LET d == Dispatch(message.error, ingame,
                                                   action_queue, new_action)
                                 IN  /\ action_queue' = d.queue
                                     /\ cb' = d.cb
                                     /\ decided_on' =
                                            IF d.cb = None THEN decided_on
                                            ELSE IF Val(d.cb).kind = "state_change"
                                            THEN NextGameState(message, last_game_state)
                                            ELSE None
                        ELSE /\ cb' = None
                             /\ UNCHANGED <<action_queue, decided_on>>
                     /\ drain' = DrainAfterMessage(message, ingame, perform_callbacks)

\* the bound on output_queue leaves room for the lines of one more step
HasRoom == Len(output_queue) < MaxOutput

\* Coordinator.signal_ready, as main calls it once after construction
SignalReady ==
    /\ pc = "constructed"
    /\ send_message(<<(<<"ready">>)>>, "signal_ready", FALSE)
    /\ pc' = "main"
    /\ cb' = None
    /\ rx' = None
    /\ ex' = None
    /\ UNCHANGED <<input_queue, action_queue, stop_after_run, in_game,
                   last_game_state, last_error, result, n_read, world, last_in_session, decided_on, drain>>
    /\ UNCHANGED <<engine, pumps>>

\* the driver sets the public stop_after_run flag
SetStopAfterRun ==
    /\ pc = "main"
    /\ ~stop_after_run
    /\ stop_after_run' = TRUE
    /\ UNCHANGED <<pc, input_queue, output_queue, action_queue, game_is_ready,
                   in_game, last_game_state, last_error, result, n_read, world>>
    /\ UNCHANGED hist
    /\ UNCHANGED <<engine, pumps>>

\* the driver calls Coordinator.run
CallRun ==
    /\ pc = "main"
    /\ pc' = "run_execute"
    /\ UNCHANGED <<input_queue, output_queue, coord, result, n_read, world>>
    /\ UNCHANGED hist
    /\ UNCHANGED <<engine, pumps>>

\* Coordinator.run, first half of the loop body
RunExecute ==
    /\ pc = "run_execute"
    /\ HasRoom
    /\ execute_next_action_if_ready("run_receive")
    /\ UNCHANGED <<engine, pumps>>

\* Coordinator.run, second half of the loop body
RunReceive ==
    /\ pc = "run_receive"
    /\ receive_game_state_update(FALSE, TRUE, "run_execute")
    /\ UNCHANGED <<engine, pumps>>

\* the driver calls Coordinator.play_one_game: clear_actions()
CallPlayOneGame ==
    /\ pc = "main"
    /\ pc' = "pog_wait_ready"
    /\ action_queue' = <<>>
    /\ result' = None
    /\ tx' = None
    /\ cb' = None
    /\ rx' = None
    /\ ex' = None
    /\ drain' = None
    /\ UNCHANGED <<input_queue, output_queue, game_is_ready, stop_after_run,
                   in_game, last_game_state, last_error, n_read, world, ready_seen,
                   sent_any, last_in_session, decided_on>>
    /\ UNCHANGED <<engine, pumps>>

\* play_one_game: while not self.game_is_ready: receive(block, no callbacks)
PlayWaitReady ==
    /\ pc = "pog_wait_ready"
    /\ ~game_is_ready
    /\ receive_game_state_update(TRUE, FALSE, "pog_wait_ready")
    /\ UNCHANGED <<engine, pumps>>

\* MustStart that starts a session whether or not one is active
MustStart_always == in_game \/ ~in_game

\* whether play_one_game sends the start command after the ready handshake
MustStart == ~in_game

\* play_one_game: if not self.in_game: StartGameAction(...).execute(self)
PlayStart ==
    /\ pc = "pog_wait_ready"
    /\ game_is_ready
    /\ MustStart
    /\ HasRoom
    /\ \E player_class \in PlayerClasses, seed \in Seeds :
           LET action == StartGameAction(player_class, 0, seed)
           IN  /\ send_message(execute(action).lines, "play_one_game", FALSE)
               /\ ex' = Some(action)
    /\ pc' = "pog_start_receive"
    /\ cb' = None
    /\ rx' = None
    /\ UNCHANGED <<input_queue, action_queue, stop_after_run, in_game,
                   last_game_state, last_error, result, n_read, world, last_in_session, decided_on, drain>>
    /\ UNCHANGED <<engine, pumps>>

\* play_one_game: the blocking receive that follows the start command
PlayStartReceive ==
    /\ pc = "pog_start_receive"
    /\ receive_game_state_update(TRUE, TRUE, "pog_execute")
    /\ UNCHANGED <<engine, pumps>>

\* play_one_game: a session is already active, no start command
PlayAlreadyInGame ==
    /\ pc = "pog_wait_ready"
    /\ game_is_ready
    /\ ~MustStart
    /\ pc' = "pog_execute"
    /\ tx' = None
    /\ cb' = None
    /\ rx' = None
    /\ ex' = None
    /\ UNCHANGED <<input_queue, output_queue, coord, result, n_read, world,
                   ready_seen, sent_any, last_in_session, decided_on, drain>>
    /\ UNCHANGED <<engine, pumps>>

\* play_one_game: while self.in_game: execute_next_action_if_ready()
PlayExecute ==
    /\ pc = "pog_execute"
    /\ in_game
    /\ HasRoom
    /\ execute_next_action_if_ready("pog_receive")
    /\ UNCHANGED <<engine, pumps>>

\* play_one_game: ... receive_game_state_update()
PlayReceive ==
    /\ pc = "pog_receive"
    /\ receive_game_state_update(FALSE, TRUE, "pog_execute")
    /\ UNCHANGED <<engine, pumps>>

\* Outcome that reports any game-over screen as a victory
Outcome_any_game_over(game_state) == game_state.screen_type = "GAME_OVER"

\* the value play_one_game returns for the snapshot it holds
Outcome(game_state) ==
    IF game_state.screen_type = "GAME_OVER"
    THEN game_state.screen.victory
    ELSE FALSE

\* play_one_game: the session is over, return; with no snapshot at all the
\* read of last_game_state.screen_type raises
PlayReturn ==
    /\ pc = "pog_execute"
    /\ ~in_game
    /\ IF last_game_state = None
       THEN /\ pc' = "fault"
            /\ result' = None
       ELSE /\ pc' = "main"
            /\ result' = Some(Outcome(Val(last_game_state)))
    /\ tx' = None
    /\ cb' = None
    /\ rx' = None
    /\ ex' = None
    /\ UNCHANGED <<input_queue, output_queue, coord, n_read, world, ready_seen,
                   sent_any, last_in_session, decided_on, drain>>
    /\ UNCHANGED <<engine, pumps>>

\* read_stdin: the input pump puts the next line of the application on
\* input_queue
ReadStdin ==
    /\ n_read < MessagesIn(world)
    /\ Len(input_queue) < MaxInput
    /\ \E message \in MessagesOf(world) : input_queue' = Append(input_queue, message)
    /\ n_read' = n_read + 1
    /\ UNCHANGED <<pc, output_queue, coord, result, world>>
    /\ UNCHANGED hist
    /\ UNCHANGED <<engine, pumps>>

\* write_stdout: the output pump takes one line and prints it
WriteStdout ==
    /\ output_queue # <<>>
    /\ output_queue' = Tail(output_queue)
    /\ UNCHANGED <<pc, input_queue, coord, result, n_read, world>>
    /\ UNCHANGED hist
    /\ UNCHANGED <<engine, pumps>>

Next ==
    \/ SignalReady
    \/ SetStopAfterRun
    \/ CallRun
    \/ RunExecute
    \/ RunReceive
    \/ CallPlayOneGame
    \/ PlayWaitReady
    \/ PlayStart
    \/ PlayStartReceive
    \/ PlayAlreadyInGame
    \/ PlayExecute
    \/ PlayReceive
    \/ PlayReturn
    \/ ReadStdin
    \/ WriteStdout

Spec == Init /\ [][Next]_vars

----------------------------------------------------------------------------
(* The Decision Engine at work: the application shows it snapshots, the
   Coordinator hands each to get_next_action_in_game and executes the answer *)

\* the symbols of map nodes
Symbols == {"A", "B", "C"}

\* the rewards a table gives a symbol
RewardValues == {-1, 1, 5}

\* a node above the top layer, where the boss is: not a node of the map
BossNode == [x |-> 3, y |-> 16]

\* two entrance nodes A and B that both lead to C
ForkMap ==
    << MapNode(0, 0, "A", <<[x |-> 0, y |-> 1]>>),
       MapNode(1, 0, "B", <<[x |-> 0, y |-> 1]>>),
       MapNode(0, 1, "C", <<BossNode>>) >>

\* three layers
TallMap ==
    << MapNode(0, 0, "A", <<[x |-> 0, y |-> 1], [x |-> 1, y |-> 1]>>),
       MapNode(1, 0, "B", <<[x |-> 1, y |-> 1]>>),
       MapNode(0, 1, "C", <<[x |-> 0, y |-> 2]>>),
       MapNode(1, 1, "A", <<[x |-> 0, y |-> 2], [x |-> 2, y |-> 2]>>),
       MapNode(0, 2, "B", <<BossNode>>),
       MapNode(2, 2, "C", <<BossNode>>) >>

\* one layer
FlatMap ==
    << MapNode(1, 0, "A", <<BossNode>>),
       MapNode(0, 0, "B", <<BossNode>>) >>

\* the last act: one room per layer, and the boss is entered from layer 2
\* although the map goes on above it
EndingMap ==
    << MapNode(3, 0, "A", <<[x |-> 3, y |-> 1]>>),
       MapNode(3, 1, "B", <<[x |-> 3, y |-> 2]>>),
       MapNode(3, 2, "C", <<[x |-> 3, y |-> 3]>>),
       MapNode(3, 3, "A", <<>>) >>

Maps == {ForkMap, TallMap, FlatMap, EndingMap}

\* the layer from which the application offers the boss
BossLayer(map) == IF map = EndingMap THEN 2 ELSE map_height(map)

\* an act: its map and the reward table the Policy has for it
Dungeon(map, node_rewards) == [act |-> 1, map |-> map, node_rewards |-> node_rewards]

\* the stretches of a run the engine is shown
AgentWorlds == {"rest", "fight", "rooms", "act"}

DungeonsOf(w) ==
    IF w = "act"
    THEN {Dungeon(map, node_rewards) : map \in Maps, node_rewards \in [Symbols -> RewardValues]}
    ELSE {Dungeon(FlatMap, [s \in Symbols |-> -1])}

\* the node of a map screen for a node of the map
OnScreen(node) == ScreenNode(node.x, node.y, node.symbol)

\* the map screens the application shows a player who stands at `at`: None
\* is the entrance of the act, where the current node is the room the player
\* came from
MapScreensAt(map, at) ==
    IF at = None
    THEN {MapScreenAt(ScreenNode(0, y, "None"),
                      [i \in 1..Len(Layer(map, 0)) |-> OnScreen(Layer(map, 0)[i])],
                      FALSE) : y \in {-1, map_height(map) + 1}}
    ELSE LET node == Val(get_node(map, Val(at).x, Val(at).y))
             next_nodes == children(map, node)
         IN  {MapScreenAt(OnScreen(node),
                          [i \in 1..Len(next_nodes) |-> OnScreen(next_nodes[i])],
                          node.y = BossLayer(map))}

\* snapshots of combat-reward screens
RewardSnapshots ==
    {Snapshot([choice_available |-> TRUE, proceed_available |-> TRUE,
               screen_type |-> "COMBAT_REWARD",
               screen |-> CombatRewardScreen(rewards), potions |-> potions]) :
        rewards \in {<<PotionReward, CardReward, GoldReward>>,
                     <<PotionReward, CardReward>>,
                     <<CardReward, RelicReward("Rewards")>>,
                     <<>>},
        potions \in {<<FirePotion, FirePotion>>, <<FirePotion, PotionSlot>>}}

\* the hit points of the rest-site snapshots, of max_hp 81
RestHp == {10, 40, 41, 72, 73, 81}

\* snapshots of rest sites: the options are a choice list until the player
\* has rested
RestSnapshot(rest_options, has_rested, current_hp, act, floor) ==
    Snapshot([choice_available |-> Len(rest_options) > 0 /\ ~has_rested,
              proceed_available |-> has_rested,
              screen_type |-> "REST", screen |-> RestScreen(has_rested, rest_options),
              current_hp |-> current_hp, max_hp |-> 81,
              act |-> act, floor |-> floor])

RestSnapshots ==
    {RestSnapshot(rest_options, FALSE, current_hp, where[1], where[2]) :
        rest_options \in {<<"REST", "SMITH">>, <<"SMITH", "REST">>,
                          <<"REST", "LIFT", "DIG">>, <<"DIG", "REST">>, <<"REST">>,
                          <<"SMITH">>, <<"RECALL">>, <<>>},
        current_hp \in RestHp,
        where \in {<<1, 15>>, <<2, 32>>}}
    \cup {RestSnapshot(rest_options, TRUE, 10, 1, 6) :
              rest_options \in {<<"REST", "SMITH">>, <<>>}}

Footwork == Card("f1", "Footwork", "POWER", 1, FALSE)
Cleave == Card("c1", "Cleave", "ATTACK", 1, FALSE)
Bash == Card("b1", "Bash", "ATTACK", 2, TRUE)
Strike == Card("s1", "Strike", "ATTACK", 1, TRUE)
Defend == Card("d1", "Defend", "SKILL", 1, FALSE)
Slimed == [Card("x1", "Slimed", "STATUS", 1, FALSE) EXCEPT !.exhausts = TRUE]
Shiv == Card("v1", "Shiv", "ATTACK", 0, TRUE)
Bandage == Card("n1", "Bandage Up", "SKILL", 0, FALSE)
Impervious == [Card("i1", "Impervious", "SKILL", 2, FALSE) EXCEPT !.exhausts = TRUE]

\* snapshots of card-reward screens
CardRewardSnapshots ==
    {Snapshot([choice_available |-> TRUE, screen_type |-> "CARD_REWARD",
               screen |-> CardRewardScreen(cards, can_bowl, can_skip),
               deck |-> deck]) :
        cards \in {<<Strike, Defend>>, <<Strike, Cleave, Footwork>>},
        can_bowl \in BOOLEAN, can_skip \in BOOLEAN,
        deck \in {<<>>, <<Footwork, Cleave>>}}

\* snapshots of the other screens
ScreenSnapshots ==
    {Snapshot([choice_available |-> TRUE, screen_type |-> screen.screen_type,
               screen |-> screen, gold |-> gold]) :
        screen \in {ShopRoomScreen, ChestScreen(FALSE),
                    EventScreen("Golden Idol", <<"Take", "Leave">>),
                    EventScreen("Big Fish", <<"Banana", "Donut", "Box">>),
                    BossRewardScreen(<<Relic("Ectoplasm", "Boss"), Relic("Sozu", "Boss")>>),
                    ShopGoods(<<Slimed, Cleave>>, <<>>, TRUE, 75),
                    ShopGoods(<<Slimed, Cleave>>,
                              <<[price |-> 60] @@ Relic("Anchor", "Shop")>>, FALSE, 75),
                    [for_upgrade |-> TRUE]
                        @@ GridSelectScreen(<<Strike, Defend, Bash>>, <<>>, 1, FALSE, FALSE),
                    [for_upgrade |-> FALSE]
                        @@ GridSelectScreen(<<Strike, Defend, Bash>>, <<>>, 1, FALSE, FALSE),
                    HandSelectScreen(<<Strike, Defend, Bash, Cleave>>, <<>>, 4),
                    GameOverScreen(FALSE)},
        gold \in {55, 99}}

\* the monster lists of the fights, as Monster.from_json builds them
ParsedMonsters ==
    {<<Monster("Cultist", 0, 30, 6), Monster("Jaw Worm", 0, 12, 11)>>,
     <<Monster("Cultist", 0, 9, 6)>>,
     <<[Monster("Cultist", 0, 0, 6) EXCEPT !.is_gone = TRUE]>>,
     <<[Monster("Cultist", 0, 0, 6) EXCEPT !.is_gone = TRUE],
       Monster("Jaw Worm", 0, 12, 11)>>}

\* snapshots of a fight
CombatSnapshots ==
    {Snapshot([play_available |-> hand # <<>>, end_available |-> TRUE,
               in_combat |-> TRUE, act |-> 1, room_type |-> room_type,
               player |-> Some(Player(block)), hand |-> hand, monsters |-> monsters,
               potions |-> <<PotionSlot, UsablePotion(FirePotion, can_use, TRUE)>>]) :
        can_use \in BOOLEAN,
        hand \in {<<>>, <<Strike, Defend>>, <<Defend, Cleave, Strike>>,
                  <<Shiv, Slimed>>, <<Bandage, Bash>>, <<Footwork, Strike>>,
                  <<Impervious>>,
                  <<[Strike EXCEPT !.is_playable = FALSE]>>},
        block \in {0, 20},
        monsters \in {IndexMonsters(parsed) : parsed \in ParsedMonsters},
        room_type \in {"MonsterRoom", "MonsterRoomBoss"}}

\* snapshots with no screen choice: only proceed, only cancel, nothing at all
IdleSnapshots ==
    {Snapshot([proceed_available |-> proceed, cancel_available |-> cancel]) :
        proceed \in BOOLEAN, cancel \in BOOLEAN}

\* the snapshots the application can show next
SnapshotsAt(w, d, at) ==
    LET here == [map |-> d.map, act |-> d.act]
    IN  IF w = "act"
        THEN {Snapshot([choice_available |-> TRUE, screen_type |-> "MAP",
                        screen |-> screen] @@ here) : screen \in MapScreensAt(d.map, at)}
             \cup {g \in RewardSnapshots :
                       g.screen.rewards = <<PotionReward, CardReward, GoldReward>>}
             \cup {g \in CardRewardSnapshots : g.deck = <<>> /\ ~g.screen.can_bowl}
             \cup {g \in IdleSnapshots : g.proceed_available}
        ELSE IF w = "rest" THEN RestSnapshots
        ELSE IF w = "fight" THEN CombatSnapshots
        ELSE RewardSnapshots \cup CardRewardSnapshots \cup ScreenSnapshots
                 \cup IdleSnapshots

\* where the player stands once the application has carried out `action`
\* on the snapshot it was executed against
PlaceAfter(action, game, at) ==
    IF game.screen_type # "MAP" THEN at
    ELSE CASE action.type = "ChooseMapBossAction" -> None
           [] action.type = "ChooseMapNodeAction" ->
                  Some([x |-> action.node.x, y |-> action.node.y])
           [] action.type = "ChooseAction" /\ action.name = None ->
                  LET choice == Subscript(game.screen.next_nodes, action.choice_index)
                  IN  IF choice = None THEN at
                      ELSE Some([x |-> Val(choice).x, y |-> Val(choice).y])
           [] OTHER -> at

\* where the player stands when the driver attaches: the entrance of the
\* act, or any node of its map when the run is already under way
StartsOf(w, map) ==
    IF w = "act"
    THEN {None} \cup {Some([x |-> map[i].x, y |-> map[i].y]) : i \in 1..Len(map)}
    ELSE {None}

AgentInit ==
    /\ pc = "run_receive"
    /\ input_queue = <<>>
    /\ output_queue = <<>>
    /\ action_queue = <<>>
    /\ game_is_ready = TRUE
    /\ stop_after_run = FALSE
    /\ in_game = TRUE
    /\ last_game_state = None
    /\ last_error = None
    /\ result = None
    /\ n_read = 0
    /\ world \in AgentWorlds
    /\ tx = None
    /\ cb = None
    /\ rx = None
    /\ ex = None
    /\ ready_seen = FALSE
    /\ sent_any = FALSE
    /\ last_in_session = None
    /\ decided_on = None
    /\ drain = None
    /\ agent = SimpleAgent
    /\ dungeon \in {Some(d) : d \in DungeonsOf(world)}
    /\ place \in StartsOf(world, Val(dungeon).map)
    /\ decision = None
    /\ plans = 0
    /\ encounter = NewEncounter
    /\ PumpsIdle

\* what the agent keeps from one decision to the next
Kept(self) ==
    [skipped_cards |-> self.skipped_cards, visited_shop |-> self.visited_shop,
     map_route |-> self.map_route]

\* receive_game_state_update in a session with nothing pending: the snapshot
\* is stored and state_change_callback, which is get_next_action_in_game,
\* decides on it; the action it returns is queued
AgentDecide ==
    /\ pc = "run_receive"
    /\ \E game_state \in SnapshotsAt(world, Val(dungeon), place) :
           LET outcome == get_next_action_in_game(agent, game_state)
           IN  /\ agent' = outcome.self
               /\ last_game_state' = Some(outcome.self.game)
               /\ decision' = Some([game_state |-> game_state, before |-> Kept(agent),
                                    action |-> outcome.action, fault |-> outcome.fault,
                                    planned |-> outcome.planned, lines |-> <<>>])
               /\ plans' = IF outcome.planned THEN plans + 1 ELSE plans
               /\ encounter' = EncounterAfterDecision(game_state, outcome.action)
               /\ action_queue' = IF outcome.action = None THEN <<>>
                                  ELSE <<Val(outcome.action)>>
               /\ pc' = IF outcome.fault THEN "fault" ELSE "run_execute"
    /\ in_game' = TRUE
    /\ UNCHANGED <<input_queue, output_queue, game_is_ready, stop_after_run,
                   last_error, result, n_read, world, dungeon, place>>
    /\ UNCHANGED hist
    /\ UNCHANGED pumps

\* execute_next_action on what the engine's answer queued: each line is
\* recorded; the application carries a map choice out at once. An answer of
\* None has no can_be_executed
AgentExecute ==
    /\ pc = "run_execute"
    /\ IF action_queue = <<>>
       THEN /\ pc' = "fault"
            /\ UNCHANGED <<action_queue, decision, place, plans, encounter>>
       ELSE LET action == Head(action_queue)
                eff == execute(action)
                pending == Tail(action_queue) \o eff.push
            IN  IF eff.fault
                THEN /\ pc' = "fault"
                     /\ action_queue' = Tail(action_queue)
                     /\ UNCHANGED <<decision, place, plans, encounter>>
                ELSE /\ action_queue' = pending
                     /\ decision' =
                            IF decision = None THEN None
                            ELSE Some([Val(decision) EXCEPT !.lines = @ \o eff.lines])
                     /\ place' = IF in_game
                                 THEN PlaceAfter(action, Val(last_game_state), place)
                                 ELSE place
                     /\ plans' = IF place' = None /\ place # None THEN 0 ELSE plans
                     /\ encounter' =
                            IF in_game
                            THEN EncounterAfterExecute(action, Val(last_game_state))
                            ELSE encounter
                     /\ pc' = IF pending = <<>> THEN "run_receive" ELSE "run_execute"
    /\ UNCHANGED <<input_queue, output_queue, game_is_ready, stop_after_run, in_game,
                   last_game_state, last_error, result, n_read, world, agent, dungeon>>
    /\ UNCHANGED hist
    /\ UNCHANGED pumps

\* receive_game_state_update on an error message, which the application sends
\* in answer to a line: the queue is cleared and error_callback, which main
\* registers as SimpleAgent.handle_error, is asked for the recovery action.
\* The history of the last decision starts afresh
AgentError ==
    /\ pc = "run_receive"
    /\ decision # None
    /\ Val(decision).lines # <<>>
    /\ \E error \in ErrorTexts :
           LET outcome == handle_error(agent, error)
           IN  /\ last_error' = Some(error)
               /\ agent' = outcome.self
               /\ action_queue' = IF outcome.fault THEN <<>>
                                  ELSE <<Val(outcome.action)>>
               /\ pc' = IF outcome.fault THEN "fault" ELSE "run_execute"
    /\ decision' = None
    /\ UNCHANGED <<input_queue, output_queue, game_is_ready, stop_after_run, in_game,
                   last_game_state, result, n_read, world, dungeon, place, plans,
                   encounter>>
    /\ UNCHANGED hist
    /\ UNCHANGED pumps

\* SimpleAgent.get_next_action_out_of_game
get_next_action_out_of_game(self) ==
    Returns(self, StartGameAction(self.chosen_class, 0, None))

\* receive_game_state_update on a message without error whose in_game flag is
\* unset, with nothing pending: the session is over, the snapshot is kept and
\* out_of_game_callback, which main registers as get_next_action_out_of_game,
\* is asked for the action to queue. The next session starts at the entrance
\* of the act
AgentOutOfGame ==
    /\ pc = "run_receive"
    /\ LET outcome == get_next_action_out_of_game(agent)
       IN  /\ agent' = outcome.self
           /\ action_queue' = <<Val(outcome.action)>>
    /\ in_game' = FALSE
    /\ pc' = "run_execute"
    /\ decision' = None
    /\ place' = None
    /\ plans' = 0
    /\ encounter' = NewEncounter
    /\ UNCHANGED <<input_queue, output_queue, game_is_ready, stop_after_run,
                   last_game_state, last_error, result, n_read, world, dungeon>>
    /\ UNCHANGED hist
    /\ UNCHANGED pumps

AgentNext ==
    \/ AgentDecide
    \/ AgentExecute
    \/ AgentError
    \/ AgentOutOfGame

AgentSpec == AgentInit /\ [][AgentNext]_vars

----------------------------------------------------------------------------
(* The Transport: the two pumps and the queues they share with the main loop *)

\* characters the application writes to the driver's stdin in one behaviour
MaxStdin == 4

\* lines the main loop sends in one behaviour
MaxSent == 2

\* the characters of the application's output
Chars == {"a", "b", "\n"}

\* what the application can write in one behaviour
Streams == UNION {[1..n -> Chars] : n \in 0..MaxStdin}

\* the lines the main loop sends
SentLines == {<<"state">>, <<"end">>}

\* queue.Queue.put: the item goes to the end of the queue
put(queue, item) == Append(queue, item)

\* read_stdin that starts no new line after it has put one
read_char_keeping(line, queue, input_char) ==
    IF input_char = "\n"
    THEN [stdin_input |-> line, input_queue |-> put(queue, line)]
    ELSE [stdin_input |-> Append(line, input_char), input_queue |-> queue]

\* read_stdin, one character: a newline puts the accumulated line on the
\* queue and starts an empty one, any other character is added to the line
read_char(line, queue, input_char) ==
    IF input_char = "\n"
    THEN [stdin_input |-> <<>>, input_queue |-> put(queue, line)]
    ELSE [stdin_input |-> Append(line, input_char), input_queue |-> queue]

\* the coordinator is constructed, its pumps are started and the application
\* has some characters to write
TransportInit ==
    /\ pc = "run_receive"
    /\ input_queue = <<>>
    /\ output_queue = <<>>
    /\ action_queue = <<>>
    /\ game_is_ready = FALSE
    /\ stop_after_run = FALSE
    /\ in_game = FALSE
    /\ last_game_state = None
    /\ last_error = None
    /\ result = None
    /\ n_read = 0
    /\ world = "cards"
    /\ tx = None
    /\ cb = None
    /\ rx = None
    /\ ex = None
    /\ ready_seen = FALSE
    /\ sent_any = FALSE
    /\ last_in_session = None
    /\ decided_on = None
    /\ drain = None
    /\ agent = SimpleAgent
    /\ dungeon = None
    /\ place = None
    /\ decision = None
    /\ plans = 0
    /\ encounter = NewEncounter
    /\ stdin \in Streams
    /\ stdin_input = <<>>
    /\ typed = <<>>
    /\ stdout = <<>>
    /\ got = <<>>
    /\ sent = <<>>

\* what the transport leaves alone
beyond == <<pc, coord, result, n_read, world, hist, engine>>

\* read_stdin in the input pump thread: sys.stdin.read(1) and what follows it
PumpRead ==
    /\ stdin # <<>>
    /\ LET step == read_char(stdin_input, input_queue, Head(stdin))
       IN  /\ stdin_input' = step.stdin_input
           /\ input_queue' = step.input_queue
    /\ stdin' = Tail(stdin)
    /\ typed' = Append(typed, Head(stdin))
    /\ UNCHANGED <<output_queue, stdout, got, sent>>
    /\ UNCHANGED beyond

\* what the main loop's receive leaves alone besides its own position
beyond_receive == <<coord, result, n_read, world, hist, engine>>

\* CallsGet that calls input_queue.get() whether or not a line is queued
CallsGet_always(block, queue) == TRUE

\* get_next_raw_message: the test that decides whether input_queue.get() is
\* called
CallsGet(block, queue) == block \/ queue # <<>>

\* get_next_raw_message(block=False) in the main loop, up to the test of
\* input_queue.empty(): with a line queued it goes on to input_queue.get(),
\* with none it returns without one
TestInputQueue ==
    /\ pc = "run_receive"
    /\ pc' = IF CallsGet(FALSE, input_queue) THEN "raw_get" ELSE "raw_none"
    /\ UNCHANGED <<input_queue, output_queue>>
    /\ UNCHANGED pumps
    /\ UNCHANGED beyond_receive

\* get_next_raw_message in the main loop: input_queue.get(), which waits
\* while the queue is empty
GetNextRawMessage ==
    /\ pc = "raw_get"
    /\ input_queue # <<>>
    /\ got' = Append(got, Head(input_queue))
    /\ input_queue' = Tail(input_queue)
    /\ pc' = "run_receive"
    /\ UNCHANGED <<output_queue, stdin, stdin_input, typed, stdout, sent>>
    /\ UNCHANGED beyond_receive

\* receive_game_state_update was given no message: it returns False and the
\* loop comes round to the next receive
ReceivedNothing ==
    /\ pc = "raw_none"
    /\ pc' = "run_receive"
    /\ UNCHANGED <<input_queue, output_queue>>
    /\ UNCHANGED pumps
    /\ UNCHANGED beyond_receive

\* send_message in the main loop, between two receives:
\* output_queue.put(message)
SendMessage ==
    /\ pc = "run_receive"
    /\ Len(sent) < MaxSent
    /\ \E message \in SentLines :
           /\ output_queue' = put(output_queue, message)
           /\ sent' = Append(sent, message)
    /\ UNCHANGED <<input_queue, stdin, stdin_input, typed, stdout, got>>
    /\ UNCHANGED beyond

\* write_stdout in the output pump thread: output_queue.get() and print
PumpWrite ==
    /\ output_queue # <<>>
    /\ stdout' = Append(stdout, Head(output_queue))
    /\ output_queue' = Tail(output_queue)
    /\ UNCHANGED <<input_queue, stdin, stdin_input, typed, got, sent>>
    /\ UNCHANGED beyond

TransportNext ==
    \/ PumpRead
    \/ TestInputQueue
    \/ GetNextRawMessage
    \/ ReceivedNothing
    \/ SendMessage
    \/ PumpWrite

TransportSpec == TransportInit /\ [][TransportNext]_vars

----------------------------------------------------------------------------
(* Properties *)

\* the main thread wrote a line in its last step, executing the head of the
\* pending-action queue
WroteFromQueue == tx # None /\ Val(tx).from_queue

\* C1 as stated: every line written by an action taken from the pending-action
\* queue, whatever its type, was written with game_is_ready true
C1_ReadyGateEveryAction == WroteFromQueue => Val(tx).gate

\* C1: every line written by an action taken from the pending-action queue that
\* requires the game to be ready (every action type except StateAction) was
\* written with game_is_ready true immediately before the write
C1_ReadyGate ==
    WroteFromQueue /\ Val(ex).requires_game_ready => Val(tx).gate

\* a ready-gated action taken from the queue wrote its line through an open gate
C1_Witness ==
    /\ WroteFromQueue
    /\ Val(ex).type = "PlayCardAction"
    /\ Val(tx).gate
    /\ ~game_is_ready

\* C2 as stated: sending closes the gate, the gate reopens only on a ready
\* message, and between any two lines written a ready message was received
C2_OneInFlightEveryLine ==
    /\ tx # None => ~game_is_ready
    /\ game_is_ready => ready_seen
    /\ tx # None /\ Val(tx).sent_before => Val(tx).ready_seen

\* C2: sending any line closes the gate, the gate is open only if a ready
\* message was received since the last line written, and between a line and a
\* later line other than the `state` line of a StateAction a ready message was
\* received
C2_OneInFlight ==
    /\ tx # None => ~game_is_ready
    /\ game_is_ready => ready_seen
    /\ tx # None /\ Val(tx).sent_before /\ Val(tx).by # "StateAction"
           => Val(tx).ready_seen

\* a second line was written by a gated action after a ready message arrived
C2_Witness ==
    /\ tx # None
    /\ Val(tx).sent_before
    /\ Val(tx).from_queue
    /\ Val(tx).by # "StateAction"
    /\ Val(tx).ready_seen
    /\ ~game_is_ready
\* the main thread received an error message in its last step
ReceivedError == rx # None /\ Val(rx).message.error # None

\* the main thread received a message without error in its last step
NoError == rx # None /\ Val(rx).message.error = None

\* the main thread received a message without error in its last step, with
\* callbacks enabled
Dispatched == rx # None /\ Val(rx).callbacks /\ Val(rx).message.error = None

\* the error callback was invoked and the queue holds its result alone
OnlyRecovery ==
    /\ cb # None
    /\ Val(cb).kind = "error"
    /\ action_queue = <<Val(cb).result>>

\* C3 as stated: after any error message, in whichever loop it is received, the
\* queue holds exactly the action the error callback returned
C3_ErrorRecoversInEveryLoop == ReceivedError => OnlyRecovery

\* C3: after an error message received with callbacks enabled (run, and
\* play_one_game after its ready handshake) the queue holds exactly the action
\* the error callback returned, whatever was pending; an error message received
\* in the ready handshake of play_one_game invokes no callback and leaves the
\* queue empty
C3_ErrorRecovers ==
    ReceivedError =>
        IF Val(rx).callbacks THEN OnlyRecovery
        ELSE cb = None /\ action_queue = <<>> /\ pc = "pog_wait_ready"

\* an error message arrived while three actions were pending and the queue now
\* holds the recovery action alone
C3_Witness ==
    /\ ReceivedError
    /\ Len(Val(rx).queue_before) = 3
    /\ OnlyRecovery

\* the state-change callback was invoked and the queue holds its result alone
OnlyDecision ==
    /\ cb # None
    /\ Val(cb).kind = "state_change"
    /\ action_queue = <<Val(cb).result>>

\* C4 as stated: on any message without error whose in_game flag is set, an
\* empty queue gets exactly the state-change callback's result and a non-empty
\* queue is left as it was, with no callback invoked
C4_InSessionDispatchEveryReceive ==
    NoError /\ Val(rx).message.in_game =>
        IF Val(rx).queue_before = <<>>
        THEN OnlyDecision
        ELSE cb = None /\ action_queue = Val(rx).queue_before

\* C4: on a message without error whose in_game flag is set, received with
\* callbacks enabled, an empty queue gets exactly the state-change callback's
\* result and a non-empty queue is left as it was, with no callback invoked; a
\* message received in the ready handshake of play_one_game invokes no callback
\* and leaves the queue empty
C4_InSessionDispatch ==
    NoError /\ Val(rx).message.in_game =>
        IF ~Val(rx).callbacks
        THEN cb = None /\ action_queue = <<>> /\ pc = "pog_wait_ready"
        ELSE IF Val(rx).queue_before = <<>>
        THEN OnlyDecision
        ELSE cb = None /\ action_queue = Val(rx).queue_before

\* an in-session message arrived while actions were pending: no decision taken
C4_Witness ==
    /\ Dispatched
    /\ Val(rx).message.in_game
    /\ Val(rx).queue_before # <<>>
    /\ cb = None
    /\ action_queue = Val(rx).queue_before

\* the out-of-game callback was invoked and its result was appended
AppendedStart ==
    /\ cb # None
    /\ Val(cb).kind = "out_of_game"
    /\ action_queue = Append(Val(rx).queue_before, Val(cb).result)

\* C5 as stated: on any message without error whose in_game flag is unset, the
\* queue is emptied and nothing is enqueued if stop_after_run is set; otherwise
\* exactly one action, the out-of-game callback's result, is appended
C5_OutOfSessionDispatchEveryReceive ==
    NoError /\ ~Val(rx).message.in_game =>
        IF stop_after_run
        THEN cb = None /\ action_queue = <<>>
        ELSE AppendedStart

\* C5: on a message without error whose in_game flag is unset, received with
\* callbacks enabled, the queue is emptied and nothing is enqueued if
\* stop_after_run is set; otherwise exactly one action, the out-of-game
\* callback's result, is appended; a message received in the ready handshake of
\* play_one_game invokes no callback and leaves the queue empty
C5_OutOfSessionDispatch ==
    NoError /\ ~Val(rx).message.in_game =>
        IF ~Val(rx).callbacks
        THEN cb = None /\ action_queue = <<>> /\ pc = "pog_wait_ready"
        ELSE IF stop_after_run
        THEN cb = None /\ action_queue = <<>>
        ELSE AppendedStart

\* with the stop flag set, an out-of-session message emptied a non-empty queue
C5_Witness ==
    /\ Dispatched
    /\ ~Val(rx).message.in_game
    /\ stop_after_run
    /\ Val(rx).queue_before # <<>>
    /\ action_queue = <<>>
\* C6 as stated: once an error message has been processed the coordinator
\* holds no snapshot, so nothing executed later reads the pre-error snapshot
C6_ErrorDropsSnapshot == ReceivedError => last_game_state = None

\* C6: an error message leaves last_game_state as it was: the coordinator keeps
\* the pre-error snapshot (only the queued actions are invalidated), and the
\* actions executed until the next in-session message are validated against it
C6_ErrorKeepsSnapshot ==
    [][rx' # None /\ Val(rx').message.error # None
          => last_game_state' = last_game_state]_vars

\* the recovery action for an error was validated against the snapshot
\* received before the error, and its line was written
C6_Witness ==
    /\ last_error # None
    /\ ex # None
    /\ Val(ex).type = "CombatRewardAction"
    /\ last_game_state = Some(Rewards2)
    /\ tx # None
    /\ Val(tx).line = <<"choose", "1">>

\* C7: once a session has been active the coordinator holds the last in-session
\* snapshot received, and when play_one_game returns, the value is a boolean
\* that is true exactly when that snapshot has screen type GAME_OVER with
\* victory true
C7_ReturnsVictory ==
    /\ last_in_session # None => last_game_state = last_in_session
    /\ pc = "main" /\ result # None =>
           /\ Val(result) \in BOOLEAN
           /\ last_in_session # None
           /\ Val(result) = (/\ Val(last_in_session).screen_type = "GAME_OVER"
                             /\ Val(last_in_session).screen.victory)

\* play_one_game returned True after a session was seen active and then over
C7_Witness ==
    /\ pc = "main"
    /\ result = Some(TRUE)
    /\ ~in_game
    /\ last_in_session = Some(Victory)

\* a start line as StartGameAction writes it
IsStartLine(line) ==
    /\ Len(line) \in {3, 4}
    /\ line[1] = "start"
    /\ line[2] \in PlayerClasses
    /\ line[3] = "0"

\* C8: play_one_game first empties the pending-action queue; until the gate is
\* open it only receives, invoking no callback and writing nothing; once a ready
\* message has been observed it writes exactly one start line if the coordinator
\* is not in a session and no line at all if a session is active (a step in
\* which receive_game_state_update raises on a rejected line ends the call
\* and is not the end of the handshake)
C8_StartHandshake ==
    [][/\ pc = "main" /\ pc' = "pog_wait_ready"
          => action_queue' = <<>> /\ output_queue' = output_queue
       /\ pc = "pog_wait_ready" /\ pc' = "pog_wait_ready"
             /\ Len(input_queue') < Len(input_queue)
          => /\ ~game_is_ready
             /\ cb' = None
             /\ action_queue' = <<>>
             /\ output_queue' = output_queue
       /\ pc = "pog_wait_ready" /\ pc' \notin {"pog_wait_ready", "protocol_error"}
          => /\ game_is_ready
             /\ ready_seen
             /\ IF in_game
                THEN pc' = "pog_execute" /\ output_queue' = output_queue
                ELSE /\ pc' = "pog_start_receive"
                     /\ Len(output_queue') = Len(output_queue) + 1
                     /\ IsStartLine(output_queue'[Len(output_queue')])
                     /\ SubSeq(output_queue', 1, Len(output_queue)) = output_queue
      ]_vars

\* play_one_game found no session after the handshake and wrote a start line
\* with a seed
C8_Witness ==
    /\ pc = "pog_start_receive"
    /\ tx # None
    /\ Val(tx).line = <<"start", "THE_SILENT", "0", "SEED1">>
    /\ Val(tx).gate
    /\ ~Val(tx).in_game

\* the action classes that validate a precondition when executed
ValidatingActions ==
    {"PlayCardAction", "PotionAction", "CombatRewardAction", "CardSelectAction",
     "BuyPurgeAction", "ChooseMapNodeAction", "ChooseMapBossAction"}

\* C9: when the execution of a validating action ends in a fault, no line was
\* put on the output queue, no sub-action was appended to the pending-action
\* queue (it lost only the action being executed) and game_is_ready is unchanged
C9_FaultBeforeEffect ==
    [][(/\ pc # "fault"
        /\ pc' = "fault"
        /\ ex' # None
        /\ Val(ex').type \in ValidatingActions)
       => (/\ output_queue' = output_queue
           /\ action_queue' = Tail(action_queue)
           /\ game_is_ready' = game_is_ready)
      ]_vars

\* a CardSelectAction faulted on its second card, the first being available
C9_Witness ==
    /\ pc = "fault"
    /\ ex = Some(CardSelectAction(<<Defend3, Bash4>>))
    /\ last_game_state = Some(HandSel)
    /\ tx = None

\* the 1-based positions of the hand cards with the uuid of `card`
PositionsOf(card, hand) == {i \in 1..Len(hand) : hand[i].uuid = card.uuid}

\* C10: a PlayCardAction holding a card, when executed, writes a play line whose
\* index is the 1-based position, in the hand of the current snapshot, of the
\* card with the same uuid; if the current hand has no such card (or there is
\* no snapshot) it faults and writes nothing
C10_PlayResolvesByUuid ==
    ex # None /\ Val(ex).type = "PlayCardAction" /\ Val(ex).card # None =>
        LET positions ==
                IF last_game_state = None THEN {}
                ELSE PositionsOf(Val(Val(ex).card), Val(last_game_state).hand)
        IN  IF positions = {}
            THEN pc = "fault" /\ tx = None
            ELSE /\ pc # "fault"
                 /\ tx # None
                 /\ Val(tx).line[1] = "play"
                 /\ \E i \in positions : Val(tx).line[2] = Str(i)

\* a held card decided on one snapshot was played at the position it has in a
\* later snapshot, where an earlier card of the same name had gone
C10_Witness ==
    /\ ex = Some(PlayCardAction(Some(Strike2), -1, None, None))
    /\ decided_on = Some(Combat3)
    /\ last_game_state = Some(Combat2)
    /\ tx # None
    /\ Val(tx).line = <<"play", "1">>

\* the wire tokens of the 0-based places of x in a list of the snapshot
Places0(list, x) == {Str(i - 1) : i \in {j \in 1..Len(list) : Eq(list[j], x)}}

\* the wire tokens of the 0-based places of a monster in a monster list
MonsterPlaces0(monsters, m) ==
    {Str(i - 1) : i \in {j \in 1..Len(monsters) : monsters[j].name = m.name}}

\* the choose actions that the last executed CardSelectAction appended
AppendedChoices ==
    LET k == Len(Val(ex).cards)
        n == Len(action_queue)
    IN  SubSeq(action_queue, n - k, n - 1)

\* the index tokens of the line the main thread wrote in its last step, the
\* monster target being taken from the current snapshot's monster list
\* (current_monsters) or from the held monster's monster_index
WireIndices(current_monsters) ==
    WroteFromQueue /\ ex # None /\ last_game_state # None =>
        LET a == Val(ex)
            line == Val(tx).line
            g == Val(last_game_state)
            target ==
                IF current_monsters
                THEN MonsterPlaces0(g.monsters, Val(a.target_monster))
                ELSE {Str(Val(a.target_monster).monster_index)}
        IN  /\ a.type = "PlayCardAction" /\ a.card # None =>
                   line[2] \in {Str(i) : i \in PositionsOf(Val(a.card), g.hand)}
            /\ a.type = "PlayCardAction" /\ a.card = None =>
                   line[2] = Str(a.card_index + 1)
            /\ a.type = "PlayCardAction" /\ a.target_monster # None =>
                   Len(line) = 3 /\ line[3] \in target
            /\ a.type = "PotionAction" /\ a.potion # None =>
                   line[3] \in Places0(g.potions, Val(a.potion))
            /\ a.type = "PotionAction" /\ a.target_monster # None =>
                   Len(line) = 4 /\ line[4] \in target
            /\ a.type = "CombatRewardAction" =>
                   /\ line[1] = "choose"
                   /\ line[2] \in Places0(g.screen.rewards, a.combat_reward)
            /\ a.type = "ChooseMapNodeAction" =>
                   /\ line[1] = "choose"
                   /\ line[2] \in Places0(g.screen.next_nodes, a.node)
            /\ a.type = "ChooseAction" /\ a.name = None =>
                   line = <<"choose", Str(a.choice_index)>>

\* the choose indices a CardSelectAction appended in the last step are the
\* 0-based places of its cards in the cards of the current select screen
SelectIndices ==
    ex # None /\ Val(ex).type = "CardSelectAction" /\ pc # "fault" =>
        LET cards == Val(ex).cards
            available_cards == Val(last_game_state).screen.cards
        IN  {Str(AppendedChoices[i].choice_index) : i \in 1..Len(cards)}
                = UNION {Places0(available_cards, cards[i]) : i \in 1..Len(cards)}

\* C11 as stated: a play line carries the card's 0-based hand position plus
\* one, and the monster target index, the potion index and every choose index
\* are 0-based positions in the collections of the current snapshot
C11_IndicesOfCurrentSnapshot == WireIndices(TRUE) /\ SelectIndices

\* C11: a play line carries the card's 0-based hand position plus one; the
\* potion index and every choose index are 0-based positions in the
\* collections of the current snapshot; the monster target index is the
\* monster_index of the held monster, its 0-based position in the monster list
\* of the snapshot it was parsed from
C11_WireIndices == WireIndices(FALSE) /\ SelectIndices

\* the card at 0-based hand position 0 was played on the monster at 0-based
\* position 1: the line carries 1 for both
C11_Witness ==
    /\ WroteFromQueue
    /\ ex = Some(PlayCardAction(Some(Strike1), -1, Some(Monster1), None))
    /\ last_game_state = Some(Combat3)
    /\ Val(tx).line = <<"play", "1", "1">>

\* the members of a set of integers, largest first
RECURSIVE Descending(_)
Descending(S) ==
    IF S = {} THEN <<>>
    ELSE LET m == CHOOSE n \in S : \A o \in S : o <= n
         IN  <<m>> \o Descending(S \ {m})

\* the 0-based places of the cards of a selection in the cards that were
\* available when it expanded
SelectedPlaces(d) ==
    {i - 1 : i \in {j \in 1..Len(d.available) :
                       \E c \in 1..Len(d.cards) : d.available[j].uuid = d.cards[c].uuid}}

\* the choose lines of a selection: one per card, indices strictly descending
ChooseLines(d) ==
    LET indices == Descending(SelectedPlaces(d))
    IN  [i \in 1..Len(indices) |-> <<"choose", Str(indices[i])>>]

\* the terminal line for the snapshot the confirm action read
TerminalLine(g) ==
    IF \/ g.screen_type = "HAND_SELECT"
       \/ g.screen_type = "GRID" /\ g.screen.confirm_up
    THEN <<"proceed">>
    ELSE <<"state">>

\* the lines written in the drain d of a selection of k distinct available
\* cards are the first of the k choose lines, indices strictly descending, and
\* then the terminal line and nothing more
WireOnCourse(d) ==
    LET k == Len(d.cards)
        n == Len(d.lines)
        expected == ChooseLines(d)
    IN  /\ Len(expected) = k
        /\ \A i \in 1..(k - 1) :
               \E a, b \in SelectedPlaces(d) :
                   /\ expected[i] = <<"choose", Str(a)>>
                   /\ expected[i + 1] = <<"choose", Str(b)>>
                   /\ a > b
        /\ n <= k + 1
        /\ \A i \in 1..n : i <= k => d.lines[i] = expected[i]
        /\ n = k + 1 =>
               /\ d.confirm # None
               /\ d.lines[k + 1] = TerminalLine(Val(d.confirm))

\* the queue holds what remains of the drain d and nothing else: the choose
\* actions not yet executed and the confirm action, then the one action the
\* confirm action appended, then nothing
QueueOnCourse(d) ==
    LET k == Len(d.cards)
        n == Len(d.lines)
    IN  /\ d.confirm # None => n >= k
        /\ IF d.confirm = None
           THEN action_queue =
                    [i \in 1..(k - n) |->
                        [ChooseAction(0, None) EXCEPT
                            !.choice_index = Descending(SelectedPlaces(d))[n + i]]]
                    \o <<OptionalCardSelectConfirmAction>>
           ELSE IF n = k
           THEN /\ Len(action_queue) = 1
                /\ <<action_queue[1].command>> = TerminalLine(Val(d.confirm))
           ELSE action_queue = <<>>

\* C12 as stated: after a CardSelectAction for k distinct available cards has
\* expanded with nothing else pending, and as long as no error message is
\* received, the lines written
\* are the k choose lines with strictly descending indices and then exactly one
\* terminal line, proceed if the screen current when the confirm action runs
\* is HAND_SELECT or a GRID with confirm_up and state otherwise
C12_CompoundOrderUnlessError == drain # None => WireOnCourse(Val(drain))

\* C12: after a CardSelectAction for k distinct available cards has expanded
\* with nothing else pending, and as long as neither an error message nor an
\* out-of-session message is received, the expansion writes no line and the
\* lines written are the k choose lines with strictly descending indices and
\* then exactly one terminal line, proceed if the screen current when the
\* confirm action runs is HAND_SELECT or a GRID with confirm_up and state
\* otherwise
C12_CompoundOrder ==
    drain # None /\ Val(drain).clean =>
        WireOnCourse(Val(drain)) /\ QueueOnCourse(Val(drain))

\* two of four grid cards were selected: choose 2, choose 0, and the terminal
\* line for the screen that was current when the confirm action ran
C12_Witness ==
    /\ drain # None
    /\ Val(drain).clean
    /\ Val(drain).cards = <<Strike1, Defend3>>
    /\ Val(drain).lines = <<(<<"choose", "2">>), (<<"choose", "0">>), (<<"proceed">>)>>

\* the current snapshot lets the reward be taken: a combat-reward screen whose
\* list holds the reward, and a free potion slot if the reward is a potion
RewardAvailable(reward) ==
    /\ last_game_state # None
    /\ Val(last_game_state).screen_type = "COMBAT_REWARD"
    /\ Places0(Val(last_game_state).screen.rewards, reward) # {}
    /\ reward.reward_type = "POTION" =>
           \E i \in 1..Len(Val(last_game_state).potions) :
               Val(last_game_state).potions[i].potion_id = "Potion Slot"

\* C13: a CombatRewardAction, whenever it was decided, faults and writes
\* nothing if the current screen is not COMBAT_REWARD, if its reward is not in
\* the current reward list, or if the reward is a potion and potion storage is
\* full; otherwise it writes `choose i`, i being the reward's 0-based position
\* in the current reward list
C13_RewardValidatedAtExecution ==
    ex # None /\ Val(ex).type = "CombatRewardAction" =>
        IF RewardAvailable(Val(ex).combat_reward)
        THEN /\ pc # "fault"
             /\ tx # None
             /\ Val(tx).line[1] = "choose"
             /\ Len(Val(tx).line) = 2
             /\ Val(tx).line[2] \in
                    Places0(Val(last_game_state).screen.rewards, Val(ex).combat_reward)
        ELSE pc = "fault" /\ tx = None

\* the card reward, decided on at position 2 of a list of three, was taken at
\* position 1 of the list of two that was current when the action ran
C13_Witness ==
    /\ ex = Some(CombatRewardAction(CardReward))
    /\ decided_on = Some(Rewards3)
    /\ last_game_state = Some(Rewards2)
    /\ tx # None
    /\ Val(tx).line = <<"choose", "1">>

----------------------------------------------------------------------------
(* Properties of the Decision Engine *)

\* the engine's last answer has been executed to the end
Executed == decision # None /\ pc = "run_receive"

\* the engine's last decision was taken on a screen of this type, with a
\* choice pending
DecidedOnScreen(screen_type) ==
    /\ decision # None
    /\ Val(decision).game_state.choice_available
    /\ Val(decision).game_state.screen_type = screen_type

\* the reward is one the engine passes over: a potion with no free slot, a
\* card after the card reward was skipped
PassedOver(reward_item, d) ==
    \/ reward_item.reward_type = "POTION" /\ are_potions_full(d.game_state)
    \/ reward_item.reward_type = "CARD" /\ d.before.skipped_cards

\* the last decision met rewards [POTION, CARD, GOLD] with the potion slots
\* full and the card reward skipped before
PotionCardGold ==
    /\ DecidedOnScreen("COMBAT_REWARD")
    /\ Val(decision).game_state.screen.rewards = <<PotionReward, CardReward, GoldReward>>
    /\ are_potions_full(Val(decision).game_state)
    /\ Val(decision).before.skipped_cards

\* C14 as stated: on rewards [POTION, CARD, GOLD] with the potion slots full
\* and cards skipped before, the engine answers ProceedAction and the line
\* sent is `proceed`
C14_ProceedsPastGold ==
    PotionCardGold =>
        /\ Val(decision).action = Some(ProceedAction)
        /\ Executed => Val(decision).lines = <<(<<"proceed">>)>>

\* C14: on a combat-reward screen the engine takes the first reward it does
\* not pass over and sends `choose` with that reward's index; it proceeds,
\* and forgets that cards were skipped, only when it passes over every
\* reward. On [POTION, CARD, GOLD] with the slots full and cards skipped it
\* takes the gold: `choose 2`
C14_TakesFirstRewardNotSkipped ==
    DecidedOnScreen("COMBAT_REWARD") =>
        LET d == Val(decision)
            rewards == d.game_state.screen.rewards
        IN  /\ ~d.fault
            /\ \A i \in 1..Len(rewards) :
                   /\ ~PassedOver(rewards[i], d)
                   /\ \A j \in 1..(i - 1) : PassedOver(rewards[j], d)
                   => /\ d.action = Some(CombatRewardAction(rewards[i]))
                      /\ agent.skipped_cards = d.before.skipped_cards
                      /\ pc # "fault"
                      /\ Executed => d.lines = <<(<<"choose", Str(i - 1)>>)>>
            /\ (\A i \in 1..Len(rewards) : PassedOver(rewards[i], d))
                   => /\ d.action = Some(ProceedAction)
                      /\ ~agent.skipped_cards
                      /\ Executed => d.lines = <<(<<"proceed">>)>>
            /\ PotionCardGold =>
                   /\ d.action = Some(CombatRewardAction(GoldReward))
                   /\ Executed => d.lines = <<(<<"choose", "2">>)>>

\* the gold of [POTION, CARD, GOLD] was taken with `choose 2`
C14_Witness ==
    /\ PotionCardGold
    /\ Executed
    /\ Val(decision).lines = <<(<<"choose", "2">>)>>

\* the places in the reward list of the last decision that the scan stops at:
\* the first reward that is neither a potion met with no free slot nor a card
\* met with skipped_cards set
FirstNotSkipped ==
    LET d == Val(decision)
        rewards == d.game_state.screen.rewards
        skipped(i) ==
            \/ /\ rewards[i].reward_type = "POTION"
               /\ \A k \in 1..Len(d.game_state.potions) :
                      d.game_state.potions[k].potion_id # "Potion Slot"
            \/ rewards[i].reward_type = "CARD" /\ d.before.skipped_cards
    IN  {i \in 1..Len(rewards) : ~skipped(i) /\ \A j \in 1..(i - 1) : skipped(j)}

\* C28: on a combat-reward screen the engine answers CombatRewardAction for
\* the first reward, in the order given, that is not skipped (a POTION is
\* skipped exactly when potion storage is full, a CARD exactly when
\* skipped_cards is set, nothing else is); it answers ProceedAction exactly
\* when every reward is skipped, and skipped_cards is reset to false then
\* and only then
C28_CombatRewardRule ==
    DecidedOnScreen("COMBAT_REWARD") =>
        LET d == Val(decision)
            rewards == d.game_state.screen.rewards
        IN  /\ ~d.fault
            /\ d.action # None
            /\ \A i \in FirstNotSkipped : d.action = Some(CombatRewardAction(rewards[i]))
            /\ (d.action = Some(ProceedAction)) <=> (FirstNotSkipped = {})
            /\ agent.skipped_cards = (d.before.skipped_cards /\ FirstNotSkipped # {})

\* every reward of [POTION, CARD] was skipped, the potion slots being full and
\* cards skipped before: the engine proceeded and skipped_cards is reset
C28_Witness ==
    /\ DecidedOnScreen("COMBAT_REWARD")
    /\ Val(decision).game_state.screen.rewards = <<PotionReward, CardReward>>
    /\ Val(decision).before.skipped_cards
    /\ FirstNotSkipped = {}
    /\ ~agent.skipped_cards
    /\ Executed
    /\ Val(decision).lines = <<(<<"proceed">>)>>

\* the rest option is on the list of the last decision's rest screen
Offered(option) ==
    LET rest_options == Val(decision).game_state.screen.rest_options
    IN  \E i \in 1..Len(rest_options) : rest_options[i] = option

\* the last decision was taken at a rest site that offers REST, with less
\* than half of the hit points left
RestWhileHurt ==
    /\ decision # None
    /\ Val(decision).game_state.screen_type = "REST"
    /\ Offered("REST")
    /\ 2 * Val(decision).game_state.current_hp < Val(decision).game_state.max_hp

\* C15: at a rest site that offers REST, with current_hp below half of
\* max_hp, the engine never answers SMITH, LIFT or DIG, and while an option
\* is still to be chosen (options listed, not rested yet) it answers REST,
\* sent as `choose REST`
C15_RestsBelowHalf ==
    RestWhileHurt =>
        LET d == Val(decision)
        IN  /\ ~d.fault
            /\ d.action \notin {Some(RestAction("SMITH")), Some(RestAction("LIFT")),
                                Some(RestAction("DIG"))}
            /\ ~d.game_state.screen.has_rested
                   => /\ d.action = Some(RestAction("REST"))
                      /\ pc # "fault"
                      /\ Executed => d.lines = <<(<<"choose", "REST">>)>>

\* REST was chosen at 40 of 81 hit points although SMITH was offered, and
\* listed first
C15_Witness ==
    /\ RestWhileHurt
    /\ Executed
    /\ Val(decision).game_state.screen.rest_options = <<"SMITH", "REST">>
    /\ Val(decision).game_state.current_hp = 40
    /\ Val(decision).lines = <<(<<"choose", "REST">>)>>

\* the last decision called generate_map_route
Planning == decision # None /\ Val(decision).planned

\* the act's map and reward table
TheMap == Val(dungeon).map
TheRewards == Val(dungeon).node_rewards

\* the map has an edge from the node in column x of layer y to the node in
\* column child_x of the layer above
HasEdge(map, x, y, child_x) ==
    /\ get_node(map, x, y) # None
    /\ \E i \in 1..Len(children(map, Val(get_node(map, x, y)))) :
           LET child == children(map, Val(get_node(map, x, y)))[i]
           IN  child.x = child_x /\ child.y = y + 1

\* route names one column per layer, starts on a node of layer 0 and follows
\* an edge of the map from each layer to the next
IsPath(map, route) ==
    /\ Len(route) = map_height(map) + 1
    /\ route[1] \in Columns(map, 0)
    /\ \A y \in 0..(map_height(map) - 1) : HasEdge(map, route[y + 1], y, route[y + 2])

\* the paths of the map from layer 0 to the top layer
Paths(map) ==
    {route \in [1..(map_height(map) + 1) -> {map[i].x : i \in 1..Len(map)}] :
        IsPath(map, route)}

\* the sum of the rewards of the nodes of a path, up to layer y
RECURSIVE CumulativeReward(_, _, _, _)
CumulativeReward(map, node_rewards, route, y) ==
    node_rewards[SymbolAt(map, route[y + 1], y)]
        + (IF y = 0 THEN 0 ELSE CumulativeReward(map, node_rewards, route, y - 1))

\* C16: whenever generate_map_route is called it produces a route that is a
\* path of the map from layer 0 to the top layer of the highest cumulative
\* reward; with rewards A:1, B:5, C:1 on the map where A (column 0) and B
\* (column 1) both lead to C (column 0) the route is B then C
C16_RouteIsOptimal ==
    Planning =>
        /\ ~Val(decision).fault
        /\ IsPath(TheMap, agent.map_route)
        /\ \A route \in Paths(TheMap) :
               CumulativeReward(TheMap, TheRewards, agent.map_route, map_height(TheMap))
                   >= CumulativeReward(TheMap, TheRewards, route, map_height(TheMap))
        /\ TheMap = ForkMap /\ TheRewards = [A |-> 1, B |-> 5, C |-> 1]
               => agent.map_route = <<1, 0>>

\* C17: whenever generate_map_route is called the route it produces is a
\* real path of the map: an edge leads from each entry to the next, the
\* first entry is a node of layer 0 and no entry is the sentinel -1
C17_RouteIsRealPath ==
    Planning =>
        /\ ~Val(decision).fault
        /\ \A i \in 1..Len(agent.map_route) : agent.map_route[i] # -1
        /\ IsPath(TheMap, agent.map_route)

\* the last decision was taken on a map screen, and the boss was or was not
\* reachable
OnMapScreen(boss_available) ==
    /\ DecidedOnScreen("MAP")
    /\ Val(decision).game_state.screen.boss_available = boss_available

\* the nodes the last decision's map screen offered
NextNodes == Val(decision).game_state.screen.next_nodes

\* C18: on a map screen with the boss reachable the engine answers
\* ChooseMapBossAction, sent as `choose boss`, whatever route it holds and
\* whatever nodes the screen offers
C18_BossBeforeRoute ==
    OnMapScreen(TRUE) =>
        /\ ~Val(decision).fault
        /\ Val(decision).action = Some(ChooseMapBossAction)
        /\ pc # "fault"
        /\ Executed => Val(decision).lines = <<(<<"choose", "boss">>)>>

\* the boss was chosen although the screen offered the node of the route's
\* column for the next layer
C18_Witness ==
    /\ OnMapScreen(TRUE)
    /\ Executed
    /\ Val(decision).lines = <<(<<"choose", "boss">>)>>
    /\ NextNodes # <<>>
    /\ Subscript(agent.map_route, NextNodes[1].y) = Some(NextNodes[1].x)

\* C19: on a map screen with the boss not reachable the engine answers
\* ChooseMapNodeAction for one of the offered nodes, the one in the column
\* the route holds for the layer of the offered nodes; the fallback
\* ChooseAction(0) is not taken
C19_FollowsRoute ==
    OnMapScreen(FALSE) =>
        /\ ~Val(decision).fault
        /\ \E i \in 1..Len(NextNodes) :
               /\ Val(decision).action = Some(ChooseMapNodeAction(NextNodes[i]))
               /\ Subscript(agent.map_route, NextNodes[i].y) = Some(NextNodes[i].x)

\* the last decision was taken on a map screen whose next nodes are the
\* entrance layer of the act
AtEntrance ==
    /\ DecidedOnScreen("MAP")
    /\ NextNodes # <<>>
    /\ NextNodes[1].y = 0

\* C20: generate_map_route is called in the decisions taken on a map screen
\* whose first next node is in layer 0, and in no other; a decision that
\* does not call it leaves map_route as it was; and between two entries
\* into an act it is called at most once
C20_RouteCached ==
    /\ Planning <=> AtEntrance
    /\ decision # None /\ ~AtEntrance => agent.map_route = Val(decision).before.map_route
    /\ plans <= 1

\* a map screen of a later layer was decided on with the route planned at the
\* entrance, which it left as it was
C20_Witness ==
    /\ OnMapScreen(FALSE)
    /\ ~AtEntrance
    /\ Executed
    /\ plans = 1
    /\ agent.map_route # <<>>
    /\ agent.map_route = Val(decision).before.map_route

\* C21: the snapshot the engine holds after a decision is the snapshot it was
\* given, field for field, the screen and the map screen's current node
\* included
C21_SnapshotNeverMutated ==
    decision # None =>
        /\ agent.game = Val(decision).game_state
        /\ last_game_state = Some(Val(decision).game_state)

\* the last decision was taken on a snapshot of a fight
Fighting == decision # None /\ Val(decision).game_state.in_combat

\* the monsters of the snapshot the last decision was taken on
TheMonsters == Val(decision).game_state.monsters

\* hit points a monster can be reported with
MonsterHp == {0, 9, 12, 30}

\* the monsters as the application reported them, with other hit points
Reported(monsters, hps) ==
    [i \in 1..Len(monsters) |->
        [monsters[i] EXCEPT !.current_hp = hps[i], !.monster_index = 0]]

\* C22: in every combat snapshot each monster's monster_index is its 0-based
\* place in the snapshot's monster list, and a snapshot built from the same
\* monsters with any other hit points gives every monster the same index
C22_MonsterIndexStable ==
    Fighting =>
        /\ \A i \in 1..Len(TheMonsters) : TheMonsters[i].monster_index = i - 1
        /\ \A hps \in [1..Len(TheMonsters) -> MonsterHp] :
               \A i \in 1..Len(TheMonsters) :
                   IndexMonsters(Reported(TheMonsters, hps))[i].monster_index
                       = TheMonsters[i].monster_index

\* a card was played on the second monster of a fight whose first monster
\* has no hit points left: the target index sent is 1
C22_Witness ==
    /\ Fighting
    /\ Executed
    /\ Len(TheMonsters) = 2
    /\ TheMonsters[1].current_hp = 0
    /\ TheMonsters[2].monster_index = 1
    /\ Val(decision).action # None
    /\ Val(Val(decision).action).type = "PlayCardAction"
    /\ Val(decision).lines # <<>>
    /\ Val(decision).lines[1][1] = "play"
    /\ Val(decision).lines[1][Len(Val(decision).lines[1])] = "1"
    /\ Len(Val(decision).lines[1]) = 3

\* the agent as it stood in the last decision once it had stored the snapshot
SelfAt(d) ==
    [game |-> d.game_state, choose_good_card |-> FALSE,
     skipped_cards |-> d.before.skipped_cards, visited_shop |-> d.before.visited_shop,
     map_route |-> d.before.map_route]

\* the last decision's action is of this type
Answered(type) ==
    /\ decision # None
    /\ ~Val(decision).fault
    /\ Val(decision).action # None
    /\ Val(Val(decision).action).type = type

\* the last decision was taken with no screen choice pending and proceed not
\* available, when a card could be played
PlayRule ==
    /\ decision # None
    /\ ~Val(decision).game_state.choice_available
    /\ ~Val(decision).game_state.proceed_available
    /\ Val(decision).game_state.play_available

\* the snapshot is of a boss fight with a potion held that can be used
BossPotion(game) ==
    /\ game.room_type = "MonsterRoomBoss"
    /\ \E i \in 1..Len(game.potions) :
           game.potions[i].potion_id # "Potion Slot" /\ game.potions[i].can_use

\* the rules above the play rule and below it, which say what the action is
RulesAround(d) ==
    LET game == d.game_state
    IN  /\ game.choice_available =>
               /\ d.action = handle_screen(SelfAt(d)).action
               /\ d.fault = handle_screen(SelfAt(d)).fault
        /\ ~game.choice_available /\ game.proceed_available =>
               d.action = Some(ProceedAction) /\ ~d.fault
        /\ /\ ~game.choice_available /\ ~game.proceed_available
           /\ ~game.play_available /\ game.end_available
           => d.action = Some(EndTurnAction) /\ ~d.fault
        /\ /\ ~game.choice_available /\ ~game.proceed_available
           /\ ~game.play_available /\ ~game.end_available /\ game.cancel_available
           => d.action = Some(CancelAction) /\ ~d.fault

C24_ExactlyOneAction ==
    [][pc = "run_receive" /\ decision' # None =>
           /\ ~Val(decision').fault
           /\ Val(decision').action # None
           /\ action_queue' = <<Val(Val(decision').action)>>]_vars

\* C25: with SimpleAgent's handlers registered on the Coordinator, an error
\* message does not end the driver: a recovery action is queued to be sent
C25_ErrorNotFatal ==
    last_error # None =>
        /\ pc # "fault"
        /\ pc = "run_execute" => Len(action_queue) = 1

\* C26: a line that is not valid protocol JSON, or a snapshot with an
\* unrecognized screen type, does not end the main thread: the line is
\* dropped and the loop goes on to the following messages
C26_ProtocolErrorNotFatal ==
    [][(/\ input_queue # <<>>
        /\ input_queue' = Tail(input_queue)
        /\ Rejected(Head(input_queue)))
       => pc' # "protocol_error"]_vars

----------------------------------------------------------------------------
(* Properties of the Transport *)

\* the newline-terminated lines of a stream of characters, `line` being the
\* characters before the stream that follow the last newline
RECURSIVE LinesOf(_, _)
LinesOf(chars, line) ==
    IF chars = <<>> THEN <<>>
    ELSE IF Head(chars) = "\n" THEN <<line>> \o LinesOf(Tail(chars), <<>>)
    ELSE LinesOf(Tail(chars), Append(line, Head(chars)))

\* the characters of a stream that follow its last newline
RECURSIVE Unfinished(_, _)
Unfinished(chars, line) ==
    IF chars = <<>> THEN line
    ELSE IF Head(chars) = "\n" THEN Unfinished(Tail(chars), <<>>)
    ELSE Unfinished(Tail(chars), Append(line, Head(chars)))

\* C27: in every interleaving of the two pumps and the main loop, the messages
\* the coordinator has taken followed by those waiting in input_queue are the
\* newline-terminated lines of the characters read, one message per line in
\* the order read, the characters after the last newline being held back; and
\* the lines printed followed by those waiting in output_queue are the lines
\* send_message was called with, in that order
C27_TransportOrder ==
    /\ got \o input_queue = LinesOf(typed, <<>>)
    /\ stdin_input = Unfinished(typed, <<>>)
    /\ stdout \o output_queue = sent

\* two different lines were read and two were sent: the coordinator has taken
\* the line read first while the second waits in input_queue, and the output
\* pump has printed the line sent first while the second waits in output_queue
C27_Witness ==
    /\ typed = <<"a", "\n", "b", "\n">>
    /\ got = <<(<<"a">>)>>
    /\ input_queue = <<(<<"b">>)>>
    /\ sent = <<(<<"state">>), (<<"end">>)>>
    /\ stdout = <<(<<"state">>)>>
    /\ output_queue = <<(<<"end">>)>>

----------------------------------------------------------------------------
(* Decisions and the snapshot they are executed against *)

\* the kinds of action a compound action puts on the queue behind itself
SubActionTypes ==
    {"ChooseAction", "CardSelectAction", "OptionalCardSelectConfirmAction",
     "ProceedAction", "StateAction"}

\* the action just executed is one the state-change callback decided on
ExecutedDecision ==
    /\ ex # None
    /\ in_game
    /\ decided_on # None
    /\ Val(ex).type \notin SubActionTypes

\* C29 as stated: every action executed during a session was decided by the
\* state-change callback from the snapshot that is current when the action is
\* executed, so no decision is executed against a later snapshot
C29_NoStaleDecision ==
    ExecutedDecision => decided_on = last_game_state

\* C29: executing an action never replaces the snapshot, and an action that
\* is executed in the step right after the state-change callback returned it
\* is that callback's action, executed against the snapshot it was decided
\* on; a decision that was not executable in that step stays queued while
\* later messages replace the snapshot without a new decision
C29_DecisionExecutedNext ==
    [][ex' # None =>
           /\ last_game_state' = last_game_state
           /\ (cb # None /\ Val(cb).kind = "state_change") =>
                  /\ ex' = Some(Val(cb).result)
                  /\ decided_on = last_game_state
                  /\ decided_on' = decided_on]_vars

\* a potion decided on while the gate was closed was used, without a fault,
\* against a snapshot that replaced the one the decision saw
C29_Witness ==
    /\ ExecutedDecision
    /\ Val(ex).type = "PotionAction"
    /\ decided_on # last_game_state
    /\ pc # "fault"
    /\ tx # None

----------------------------------------------------------------------------
(* Compound actions and the actions waiting behind them *)

\* the actions that write no line and put actions on the queue instead
CompoundTypes == {"CardSelectAction", "BuyPurgeAction", "OptionalCardSelectConfirmAction"}

\* this step took a compound action from the queue and executed it without a
\* fault
ExpandsCompound ==
    /\ action_queue # <<>>
    /\ action_queue' # action_queue
    /\ ex' # None
    /\ Val(ex').type \in CompoundTypes
    /\ pc' # "fault"

\* C30 as stated: the sub-actions a compound action produces are executed
\* immediately after it, in the order produced, before any action that was
\* already waiting in the queue behind the compound action
C30_SubActionsBeforeWaiting ==
    [][ExpandsCompound =>
           action_queue' = execute(Head(action_queue)).push \o Tail(action_queue)]_vars

\* C30: a compound action is taken from the head of the queue, writes no
\* line, and its sub-actions are appended, in the order produced, behind every
\* action that was already waiting; they are the next to be executed exactly
\* when nothing else was waiting, which is so whenever the compound action
\* was the decision the state-change callback returned in the step before
C30_SubActionsAppended ==
    [][ExpandsCompound =>
           LET subs == execute(Head(action_queue)).push
           IN  /\ ex' = Some(Head(action_queue))
               /\ tx' = None
               /\ subs # <<>>
               /\ \A i \in 1..Len(subs) : subs[i].type \in SubActionTypes
               /\ action_queue' = Tail(action_queue) \o subs
               /\ (cb # None /\ Val(cb).kind = "state_change") =>
                      Tail(action_queue) = <<>>]_vars

\* a selection of two cards was expanded while a start action was waiting
\* behind it: the start action is now ahead of the two choices and the confirm
C30_Witness ==
    /\ ex # None
    /\ Val(ex).type = "CardSelectAction"
    /\ pc # "fault"
    /\ Len(action_queue) = 4
    /\ action_queue[1].type = "StartGameAction"
    /\ action_queue[2].type = "ChooseAction"
    /\ action_queue[3].type = "ChooseAction"
    /\ action_queue[4].type = "OptionalCardSelectConfirmAction"

----------------------------------------------------------------------------
(* Requests made out of session *)

\* C31 as stated: while the coordinator is out of session with the stop flag
\* unset the pending-action queue never holds more than one action, however
\* many out-of-session messages are received
C31_OneRequestPending ==
    ~in_game /\ ~stop_after_run => Len(action_queue) <= 1

\* C31: every out-of-session message received with callbacks enabled and the
\* stop flag unset adds one action of the out-of-game callback behind whatever
\* is pending and removes nothing, so the requests accumulate; a queued start
\* action writes its line only through an open gate and closes the gate
C31_RequestsAccumulate ==
    /\ Dispatched /\ ~Val(rx).message.in_game /\ ~stop_after_run =>
           /\ cb # None
           /\ Val(cb).kind = "out_of_game"
           /\ Val(cb).result \in OutOfGameCallbackResults(world)
           /\ action_queue = Val(rx).queue_before \o <<Val(cb).result>>
    /\ WroteFromQueue /\ IsStartLine(Val(tx).line) =>
           /\ Val(tx).gate
           /\ ~game_is_ready

\* out of session, with the stop flag unset, a queued start action has written
\* its start line and a second start action is still waiting behind it
C31_Witness ==
    /\ ~in_game
    /\ ~stop_after_run
    /\ WroteFromQueue
    /\ ~Val(tx).in_game
    /\ IsStartLine(Val(tx).line)
    /\ action_queue # <<>>
    /\ Head(action_queue).type = "StartGameAction"

----------------------------------------------------------------------------
(* The return of play_one_game *)

\* play_one_game is at its loop test with no session active: it returns
Returning == pc = "pog_execute" /\ ~in_game

\* the last message the main thread took was the answer to the start command
\* of this call (the only blocking receive with callbacks enabled)
AnswerToStart == rx # None /\ Val(rx).block /\ Val(rx).callbacks

----------------------------------------------------------------------------
(* The route lookup *)

\* the layer the last decision's map screen asks a column for: the layer after
\* the current node, the current node being moved to layer -1 at the entrance
LayerAsked ==
    IF AtEntrance THEN 0
    ELSE Val(decision).game_state.screen.current_node.y + 1

\* C33: whenever the engine decides on a map screen where the boss is not
\* reachable, the route it holds has an entry for the layer after the current
\* node and the decision does not fail, also when the first map screen the
\* engine sees is past the entrance of the act
C33_RouteLookupNeverFails ==
    OnMapScreen(FALSE) =>
        /\ ~Val(decision).fault
        /\ Subscript(agent.map_route, LayerAsked) # None

----------------------------------------------------------------------------
(* Flags the engine keeps from one room to the next *)

\* this step is a call of get_next_action_in_game
Decides == decision' # None /\ decision' # decision /\ Val(decision').lines = <<>>

\* the last decision scanned a combat-reward list and passed over a CARD
\* reward because skipped_cards was set
CardPassedOver ==
    /\ DecidedOnScreen("COMBAT_REWARD")
    /\ Val(decision).before.skipped_cards
    /\ LET rewards == Val(decision).game_state.screen.rewards
       IN  \E i \in 1..Len(rewards) :
               /\ rewards[i].reward_type = "CARD"
               /\ \A j \in 1..(i - 1) : PassedOver(rewards[j], Val(decision))

\* C34: a decision on a combat-reward screen passes over a CARD reward only
\* if a card reward was cancelled earlier in the same encounter, that is,
\* since the player entered the room and since the session began
C34_SkipsWithinEncounter ==
    [][Decides /\ CardPassedOver' => encounter.skipped]_vars

\* C35: the first decision the engine takes on the shop room in an encounter
\* enters the shop and the next one leaves, the count of shop-room decisions
\* starting afresh when the player leaves the room and when a session begins
C35_ShopRoomToggle ==
    [][Decides /\ DecidedOnScreen("SHOP_ROOM")' =>
           /\ encounter.shop = 0 => Val(decision').action = Some(ChooseShopkeeperAction)
           /\ encounter.shop = 1 => Val(decision').action = Some(ProceedAction)]_vars

----------------------------------------------------------------------------
(* Rewards held across a new parse of the snapshot *)

\* two rewards have the same type and content, whichever parse made them
SameContent(a, b) ==
    /\ a.reward_type = b.reward_type
    /\ a.gold = b.gold
    /\ (a.relic = None) = (b.relic = None)
    /\ a.relic # None => Val(a.relic).relic_id = Val(b.relic).relic_id
    /\ (a.potion = None) = (b.potion = None)
    /\ a.potion # None => Val(a.potion).potion_id = Val(b.potion).potion_id

\* the 0-based places of the rewards of the current list that have the type
\* and content of `reward`
OfferedAt(reward) ==
    IF last_game_state = None \/ Val(last_game_state).screen_type # "COMBAT_REWARD"
    THEN {}
    ELSE LET rewards == Val(last_game_state).screen.rewards
         IN  {Str(i - 1) : i \in {j \in 1..Len(rewards) : SameContent(rewards[j], reward)}}

\* C36: a CombatRewardAction executed on a combat-reward screen whose list
\* holds a reward of the type and content of the held one (with a free potion
\* slot if it is a potion) does not fault and writes `choose i`, i being a
\* place of such a reward in the current list, although the list was parsed
\* again since the action was built
C36_RewardRecognisedByContent ==
    /\ ex # None
    /\ Val(ex).type = "CombatRewardAction"
    /\ OfferedAt(Val(ex).combat_reward) # {}
    /\ Val(ex).combat_reward.reward_type = "POTION" =>
           ~are_potions_full(Val(last_game_state))
    => /\ pc # "fault"
       /\ tx # None
       /\ Val(tx).line[1] = "choose"
       /\ Val(tx).line[2] \in OfferedAt(Val(ex).combat_reward)

----------------------------------------------------------------------------
(* Buying a potion *)

\* C37: a BuyPotionAction executed with a free potion slot in the current
\* snapshot writes `choose <potion name>` and does not fault; executed with
\* potion storage full it faults and writes nothing
C37_BuysNamedPotion ==
    ex # None /\ Val(ex).type = "BuyPotionAction" /\ last_game_state # None =>
        IF are_potions_full(Val(last_game_state))
        THEN pc = "fault" /\ tx = None
        ELSE /\ pc # "fault"
             /\ tx # None
             /\ Val(tx).line = <<"choose", Val(Val(ex).name)>>

----------------------------------------------------------------------------
(* The card selection *)

\* the playable cards of the last decision's hand
PlayableCards ==
    LET hand == Val(decision).game_state.hand
    IN  {hand[i] : i \in {j \in 1..Len(hand) : hand[j].is_playable}}

ZeroCostNonAttacks == {card \in PlayableCards : card.cost = 0 /\ card.type # "ATTACK"}

ZeroCostAttacks == {card \in PlayableCards : card.cost = 0 /\ card.type = "ATTACK"}

NonzeroCostCards == {card \in PlayableCards : card.cost # 0}

AoeCards == {card \in PlayableCards : is_card_aoe(card)}

\* the player's block exceeds the incoming damage less the margin of the act
BlockSuffices ==
    LET game == Val(decision).game_state
    IN  Val(game.player).block > get_incoming_damage(game) - (game.act + 4)

\* the non-zero-cost cards the selection considers: with enough block only
\* the cards that are not defensive and, if there is none, only the cards
\* that do not exhaust
ConsideredNonzeroCost ==
    IF ~BlockSuffices THEN NonzeroCostCards
    ELSE IF \E card \in NonzeroCostCards : ~is_card_defensive(card)
    THEN {card \in NonzeroCostCards : ~is_card_defensive(card)}
    ELSE {card \in NonzeroCostCards : ~card.exhausts}

\* the candidates of the non-zero-cost rule: the considered cards, and the
\* area-effect cards when several monsters are alive and an attack is among
\* the considered cards
NonzeroCostChoices(considered) ==
    considered
    \cup IF /\ many_monsters_alive(Val(decision).game_state)
            /\ \E card \in considered : card.type = "ATTACK"
         THEN AoeCards ELSE {}

\* the last decision played one of these cards
Played(cards) ==
    /\ Answered("PlayCardAction")
    /\ \E card \in cards : Val(Val(decision).action).card = Some(card)

\* the last decision ended the turn because a card of these needs a target
\* and no monster can be targeted
NoTargetFor(cards) ==
    /\ Answered("EndTurnAction")
    /\ available_monsters(Val(decision).game_state) = <<>>
    /\ \E card \in cards : card.has_target

\* the last decision was left to the card selection
SelectsCard == PlayRule /\ ~BossPotion(Val(decision).game_state)

\* C38 as stated: the card selection plays a playable card of the hand, a
\* zero-cost non-attack if there is one, else a non-zero-cost card or its
\* area-effect replacement, else a zero-cost attack, and ends the turn only
\* when there is none of these
C38_PlaysWheneverPlayable ==
    SelectsCard =>
        IF ZeroCostNonAttacks # {} THEN Played(ZeroCostNonAttacks)
        ELSE IF NonzeroCostCards # {}
        THEN Played(NonzeroCostChoices(NonzeroCostCards))
        ELSE IF ZeroCostAttacks # {} THEN Played(ZeroCostAttacks)
        ELSE Answered("EndTurnAction")

\* what the selection does: it takes a playable zero-cost non-attack if there is
\* one, else one of the non-zero-cost cards it considers (with enough block
\* only those that are not defensive or, failing that, do not exhaust) or its
\* area-effect replacement, else a zero-cost attack; it plays the card taken,
\* unless the card needs a target and no monster can be targeted, and it ends
\* the turn then and when no card is taken
CardSelectionAsCoded ==
    SelectsCard =>
        IF ZeroCostNonAttacks # {}
        THEN Played(ZeroCostNonAttacks) \/ NoTargetFor(ZeroCostNonAttacks)
        ELSE IF ConsideredNonzeroCost # {}
        THEN \/ Played(NonzeroCostChoices(ConsideredNonzeroCost))
             \/ NoTargetFor(NonzeroCostChoices(ConsideredNonzeroCost))
        ELSE IF ZeroCostAttacks # {}
        THEN Played(ZeroCostAttacks) \/ NoTargetFor(ZeroCostAttacks)
        ELSE Answered("EndTurnAction")

\* a turn ended with enough block although the only playable card, a
\* defensive card that exhausts, costs energy
TurnEndedWithPlayableCard ==
    /\ SelectsCard
    /\ BlockSuffices
    /\ ZeroCostNonAttacks = {} /\ ZeroCostAttacks = {}
    /\ NonzeroCostCards # {} /\ ConsideredNonzeroCost = {}
    /\ Answered("EndTurnAction")

----------------------------------------------------------------------------
(* The Coordinator with an application that answers: every line the output
   pump prints is read by the application, which answers it with a message
   that is ready for a command and reports no error *)

\* lines printed that the application has not answered yet
MaxUnanswered == 2

\* the messages of an application that is ready and reports no error
AnswersOf(w) ==
    {message \in MessagesOf(w) :
        /\ ~Rejected(message)
        /\ message.ready_for_command
        /\ message.error = None}

\* write_stdout: the output pump takes one line and prints it for the
\* application
PrintLine ==
    /\ output_queue # <<>>
    /\ Len(stdout) < MaxUnanswered
    /\ output_queue' = Tail(output_queue)
    /\ stdout' = Append(stdout, Head(output_queue))
    /\ UNCHANGED <<pc, input_queue, coord, result, n_read, world>>
    /\ UNCHANGED hist
    /\ UNCHANGED <<engine, stdin, stdin_input, typed, got, sent>>

\* actions pending when the application can still answer out of session, an
\* answer that adds one more
MaxPending == 2

\* the application answers the oldest printed line, and read_stdin puts the
\* answer on input_queue
AnswerLine ==
    /\ stdout # <<>>
    /\ Len(input_queue) < MaxInput
    /\ \E message \in AnswersOf(world) :
           /\ ~message.in_game => Len(action_queue) < MaxPending
           /\ input_queue' = Append(input_queue, message)
    /\ stdout' = Tail(stdout)
    /\ UNCHANGED <<pc, output_queue, coord, result, n_read, world>>
    /\ UNCHANGED hist
    /\ UNCHANGED <<engine, stdin, stdin_input, typed, got, sent>>

\* the steps of the main thread inside run and play_one_game
MainLoop ==
    \/ RunExecute
    \/ RunReceive
    \/ PlayWaitReady
    \/ PlayStart
    \/ PlayStartReceive
    \/ PlayAlreadyInGame
    \/ PlayExecute
    \/ PlayReceive
    \/ PlayReturn

DrainNext ==
    \/ SignalReady
    \/ SetStopAfterRun
    \/ CallRun
    \/ CallPlayOneGame
    \/ MainLoop
    \/ PrintLine
    \/ AnswerLine

\* the main thread keeps running its loop, the output pump keeps printing and
\* the application keeps answering
\* the worlds the drain is followed in: a fight, whose actions write one line
\* each or fault, and a card selection, whose actions expand
DrainWorlds == {"cards", "select"}

DrainInit == Init /\ world \in DrainWorlds

DrainSpec ==
    /\ DrainInit
    /\ [][DrainNext]_vars
    /\ WF_vars(MainLoop)
    /\ WF_vars(PrintLine)
    /\ WF_vars(AnswerLine)

\* the main thread is in the loop of run or in the in-session loop of
\* play_one_game
InLoop == pc \in {"run_execute", "run_receive", "pog_execute", "pog_receive"}

\* an action waits at the head of the queue while the main thread is in a loop
QueuedInLoop == InLoop /\ action_queue # <<>> /\ ex = None

\* the main thread took the head of the queue in its last step and executed it
HeadExecuted == ex # None /\ pc # "fault"

\* the main thread took the head of the queue in its last step and its
\* execute raised
HeadFaulted == ex # None /\ pc = "fault"

\* the main thread has left the loop: play_one_game returned, or reading the
\* outcome raised
LoopLeft == ex = None /\ pc \in {"main", "fault"}

\* C39 as stated: with an application that answers every line with a ready
\* message without error, an action waiting in the queue while the main thread
\* is in the loop of run or of play_one_game is eventually executed
C39_EveryActionExecuted == QueuedInLoop ~> HeadExecuted

\* C39: with an application that answers every line with a ready message
\* without error, the queue changes only by losing its head to an execution,
\* by gaining actions at its back, or by being cleared, and an action waiting
\* at its head while the main thread is in a loop does not wait forever: the
\* head is eventually executed, or its execution raises, or the queue is
\* cleared, or the loop is left
C39_QueueDrains ==
    /\ [][\/ action_queue' = action_queue
          \/ action_queue' = <<>>
          \/ /\ Len(action_queue') > Len(action_queue)
             /\ SubSeq(action_queue', 1, Len(action_queue)) = action_queue
          \/ /\ action_queue # <<>>
             /\ ex' = Some(Head(action_queue))
             /\ Len(action_queue') >= Len(action_queue) - 1
             /\ SubSeq(action_queue', 1, Len(action_queue) - 1) = Tail(action_queue)]_vars
    /\ QueuedInLoop ~> (HeadExecuted \/ HeadFaulted \/ action_queue = <<>> \/ LoopLeft)

\* two sub-actions of a selection were executed one after the other, each
\* after the application's answer to the line before, and the confirm action
\* still waits
C39_Witness ==
    /\ InLoop
    /\ HeadExecuted
    /\ Val(ex).type = "ChooseAction"
    /\ drain # None
    /\ Len(Val(drain).lines) = 2
    /\ action_queue # <<>>
    /\ Head(action_queue).type = "OptionalCardSelectConfirmAction"

----------------------------------------------------------------------------
(* The receive that does not wait *)

\* the main loop's step out of the test of the input queue
ReceiveStep == pc = "run_receive" /\ pc' # pc

\* C40: a receive that is not asked to wait never waits, whatever the input
\* pump does meanwhile: with no line queued it returns at once without a
\* message and takes nothing, and when it calls input_queue.get() a line is
\* queued, the main loop being the only one to take lines off the queue
C40_ReceiveNeverWaits ==
    /\ [](pc = "raw_get" => input_queue # <<>>)
    /\ [][ReceiveStep =>
              /\ input_queue' = input_queue /\ got' = got
              /\ input_queue = <<>> => pc' = "raw_none"
              /\ input_queue # <<>> => pc' = "raw_get"]_vars
    /\ [][pc = "raw_none" /\ pc' # pc =>
              pc' = "run_receive" /\ got' = got /\ input_queue' = input_queue]_vars

\* the receive found no line and returned while the pump was in the middle of
\* one, after an earlier receive had taken a line
C40_Witness ==
    /\ pc = "raw_none"
    /\ input_queue = <<>>
    /\ stdin_input # <<>>
    /\ got # <<>>

====
